---- MODULE Spec2Model ----
(***************************************************************************)
(* Model of the agentio kernel: the run lifecycle state machine            *)
(* (packages/kernel-run), the policy engine (kernel-policy) and the        *)
(* content-addressed artifact store (kernel-artifact) with its in-memory   *)
(* and filesystem backends.                                                *)
(***************************************************************************)
EXTENDS Integers, Sequences, FiniteSets, TLC

VARIABLES
  runs,       \* RunManager.runs: run_id -> RunState (domain = ids created)
  clock,      \* the wall clock read by now() / Date.now()
  last,       \* outcome of the most recent call (return value or error)
  appendLog,  \* history: per run, the event types accepted by append()
  input,      \* policy: the config or rule list handed to the policy engine
  profile,    \* policy: the PolicyProfile in use (Null before it is built)
  evaluation, \* policy: the last evaluate() query and its PolicyEvaluation
  backendKind, \* artifact: which ArtifactBackend the store was built with
  memStore,   \* MemoryBackend.store: hash -> bytes
  files,      \* FilesystemBackend: directory entries, path -> inode number
  inodes,     \* FilesystemBackend: inode number -> file content
  metadata,   \* ArtifactStore.metadata: hash -> ArtifactMetadata
  calls,      \* the store() calls in progress, one record per call slot
  storeLog,   \* history: the store() calls that have returned, in order
  listeners,  \* RunManager.listeners: the registered callbacks, in order
  received,   \* per callback, the events it has been invoked with
  notified,   \* the callbacks the latest manager call invoked, in order
  subs,       \* history: the on() calls made (callback, the runs that existed
              \* then, whether the returned unsubscribe function was called)
  held,       \* the array a caller got from events() and what it aliases
  budgetCheck, \* policy: the last checkBudget() call and its result
  toolCall,   \* bridge: the last execute() of a bridged tool and its outcome
  fnCall,     \* the last call of a side-effect-free helper (matchesScope,
              \* buildControlState): its arguments and its result
  storeCall,  \* artifact: the last delete/retrieve/has/getMetadata call
  kept,       \* the run states of a manager the caller has dropped, as the
              \* caller still holds them
  loop,       \* AgentLoop: activeRunId, where the generator returned by
              \* tick() is suspended, and what its consumer does
  live        \* history: hash -> bytes of the artifacts a store() call has
              \* returned a handle for and no delete() call has named since

runVars == <<runs, clock, last, appendLog>>

policyVars == <<input, profile, evaluation, fnCall>>

storeVars ==
  <<backendKind, memStore, files, inodes, metadata, calls, storeLog,
    storeCall, live>>

listenVars == <<listeners, received, notified, subs>>

callerVars ==
  <<listeners, received, notified, subs, held, budgetCheck, toolCall, kept,
    loop>>

vars == <<runs, clock, last, appendLog, input, profile, evaluation,
          backendKind, memStore, files, inodes, metadata, calls, storeLog,
          listeners, received, notified, subs, held, budgetCheck, toolCall,
          fnCall, storeCall, kept, loop, live>>

\* ------------------------------------------------------------------------
\* Bounds and input sets
\* ------------------------------------------------------------------------
MaxEvents == 3        \* events recorded in total, over all runs
MaxClock == 1         \* the clock is advanced at most this far
MaxRules == 2         \* rules of a literal PolicyProfile
MaxEntries == 3       \* entries of a buildProfile config, over its three lists
MaxStores == 2        \* store() calls issued in total
MaxSubs == 2          \* on() calls made in total
MaxUsage == 2         \* largest usage figure handed to checkBudget()
MaxList == 3          \* longest list of made-up run states
MaxPattern == 3       \* longest pattern handed to matchesScope()
MaxScope == 2         \* longest scope handed to matchesScope()

RunIds == {"r1", "r2"}
AgentId == "agent"

\* EventType values passed to append(): the three counted kinds and one
\* uncounted kind.
AppendTypes == {"tool.called", "artifact.created", "run.failed", "tool.result"}

\* StructuredError values passed to fail()
Errors == {[code |-> "E_TOOL", recoverable |-> FALSE],
           [code |-> "E_BUDGET", recoverable |-> TRUE]}

RUN_STATUSES == {"pending", "running", "completed", "failed", "cancelled"}

Null == [null |-> TRUE]

\* ------------------------------------------------------------------------
\* kernel-run: transition table
\* ------------------------------------------------------------------------
Includes(arr, x) == \E i \in DOMAIN arr : arr[i] = x

\* a table that lets a completed run be restarted
VALID_TRANSITIONS_restart ==
  [pending   |-> <<"running", "cancelled">>,
   running   |-> <<"completed", "failed", "cancelled">>,
   completed |-> <<"running">>,
   failed    |-> <<>>,
   cancelled |-> <<>>]

VALID_TRANSITIONS ==
  [pending   |-> <<"running", "cancelled">>,
   running   |-> <<"completed", "failed", "cancelled">>,
   completed |-> <<>>,
   failed    |-> <<>>,
   cancelled |-> <<>>]

\* a check that lets any run be cancelled
canTransition_anyCancel(from, to) ==
  to = "cancelled" \/ Includes(VALID_TRANSITIONS[from], to)

canTransition(from, to) == Includes(VALID_TRANSITIONS[from], to)

\* ------------------------------------------------------------------------
\* protocol helpers
\* ------------------------------------------------------------------------
now == clock

\* an event factory that numbers steps from 1
createEvent_fromOne(run_id, agent_id, step_id, event) ==
  [run_id |-> run_id, agent_id |-> agent_id, step_id |-> step_id + 1,
   event |-> event, timestamp |-> now]

createEvent(run_id, agent_id, step_id, event) ==
  [run_id |-> run_id, agent_id |-> agent_id, step_id |-> step_id,
   event |-> event, timestamp |-> now]

\* the envelopes handed to create(): the fields the manager reads
Envelope(id) ==
  [run_id |-> id, agent_id |-> AgentId, budgets |-> [max_time_ms |-> 0]]

\* ------------------------------------------------------------------------
\* kernel-run: RunManager
\* ------------------------------------------------------------------------
has(runId) == runId \in DOMAIN runs

\* Errors thrown by the manager
NotFound(runId) == [kind |-> "not_found", run_id |-> runId]
AlreadyExists(runId) == [kind |-> "already_exists", run_id |-> runId]
InvalidTransition(run, to) ==
  [kind |-> "invalid_transition", from |-> run.status, to |-> to,
   run_id |-> run.envelope.run_id]
CannotAppend(run) == [kind |-> "cannot_append", status |-> run.status]

Threw(op, runId, err) ==
  [op |-> op, run_id |-> runId, ok |-> FALSE, error |-> err, ret |-> Null]
Returned(op, runId, ret) ==
  [op |-> op, run_id |-> runId, ok |-> TRUE, error |-> Null, ret |-> ret]

\* a transition() that checks but does not assign
transition_noAssign(run, to) == run

\* transition(): the status assignment (the throw is the caller's guard)
transition(run, to) == [run EXCEPT !.status = to]

\* a recordEvent() that forgets step++
recordEvent_noStep(run, eventType) ==
  [run EXCEPT
     !.events = Append(run.events,
                       createEvent(run.envelope.run_id, run.envelope.agent_id,
                                   run.step, eventType))]

\* recordEvent(): create the event with the current step, push it, step++
recordEvent(run, eventType) ==
  [run EXCEPT
     !.events = Append(run.events,
                       createEvent(run.envelope.run_id, run.envelope.agent_id,
                                   run.step, eventType)),
     !.step = run.step + 1]

lastEvent(run) == run.events[Len(run.events)]

\* counter updates that miss artifact.created
bumpCounters_noArtifacts(run, eventType) ==
  [run EXCEPT
     !.tool_calls = IF eventType = "tool.called" THEN @ + 1 ELSE @,
     !.errors = IF eventType = "run.failed" THEN @ + 1 ELSE @]

\* the counter updates of append()
bumpCounters(run, eventType) ==
  [run EXCEPT
     !.tool_calls = IF eventType = "tool.called" THEN @ + 1 ELSE @,
     !.artifacts_created = IF eventType = "artifact.created" THEN @ + 1 ELSE @,
     !.errors = IF eventType = "run.failed" THEN @ + 1 ELSE @]

\* buildSummary() when its Date.now() reads dateNow
buildSummaryAt(run, dateNow) ==
  LET startTime == IF run.started_at # Null THEN run.started_at.t ELSE dateNow
      endTime == IF run.finished_at # Null THEN run.finished_at.t ELSE dateNow
  IN [run_id |-> run.envelope.run_id,
      status |-> run.status,
      duration_ms |-> endTime - startTime,
      tool_calls |-> run.tool_calls,
      artifacts_created |-> run.artifacts_created,
      errors |-> run.errors]

\* buildSummary() in a call during which the clock does not advance
buildSummary(run) == buildSummaryAt(run, clock)

Stamp(t) == [t |-> t]

RECURSIVE SumSteps(_, _)
SumSteps(f, S) ==
  IF S = {} THEN 0
  ELSE LET x == CHOOSE y \in S : TRUE IN f[x].step + SumSteps(f, S \ {x})

\* exploration stops recording events once MaxEvents have been recorded
CanRecord == SumSteps(runs, DOMAIN runs) < MaxEvents

\* ------------------------------------------------------------------------
\* kernel-run: listeners.  A callback is a function value; the callbacks in
\* Throwing have a body that throws, the others only note the event.
\* ------------------------------------------------------------------------
Callbacks == {"l1", "bad"}
Throwing == {"bad"}

\* callbacks whose body calls the manager (see startReentrant)
Reactive ==
  {"onStartAppend", "onStartComplete", "onStartFail", "onStartCancel"}

ListenerThrew(cb) == [kind |-> "listener_threw", callback |-> cb]

\* position of the first listener whose body throws (0: none does)
FirstThrower(ls) ==
  IF \E i \in DOMAIN ls : ls[i] \in Throwing
    THEN CHOOSE i \in DOMAIN ls :
           /\ ls[i] \in Throwing
           /\ \A j \in 1..(i - 1) : ls[j] \notin Throwing
    ELSE 0

\* emit(): the for-of loop calls the listeners in array order and is left
\* by the first exception; the result is the callbacks it invoked
emit(ls) ==
  IF FirstThrower(ls) = 0 THEN ls ELSE SubSeq(ls, 1, FirstThrower(ls))

\* emit() ends by the exception of the last callback it invoked
emitThrows(ls) == emit(ls) # <<>> /\ emit(ls)[Len(emit(ls))] \in Throwing

Times(seq, x) == Cardinality({i \in DOMAIN seq : seq[i] = x})

\* what the invoked callbacks have noted after emit(event, run)
RECURSIVE noteAll(_, _, _, _)
noteAll(rcv, invoked, i, event) ==
  IF i > Len(invoked) THEN rcv
  ELSE noteAll([rcv EXCEPT ![invoked[i]] = Append(@, event)],
               invoked, i + 1, event)

\* recordEvent()'s call of emit(event, run), and its outcome for the caller
Emit(event) ==
  /\ notified' = emit(listeners)
  /\ received' = noteAll(received, emit(listeners), 1, event)

NoEmit == notified' = <<>> /\ UNCHANGED received

\* this.listeners.filter((l) => l !== listener)
removeListener(ls, cb) ==
  LET keep == {i \in DOMAIN ls : ls[i] # cb}
      RECURSIVE pick(_)
      pick(i) == IF i > Len(ls) THEN <<>>
                 ELSE (IF i \in keep THEN <<ls[i]>> ELSE <<>>) \o pick(i + 1)
  IN pick(1)

\* on(listener): push, and hand back the unsubscribe function
on(cb) ==
  /\ Len(subs) < MaxSubs
  /\ listeners' = Append(listeners, cb)
  /\ subs' = Append(subs, [callback |-> cb, undone |-> FALSE,
                          runsThen |-> DOMAIN runs])
  /\ last' = Returned("on", "", Len(subs) + 1)
  /\ notified' = <<>>
  /\ UNCHANGED <<loop, kept,
                 runs, clock, appendLog, received, held, budgetCheck,
                 toolCall, policyVars, storeVars>>

\* the unsubscribe function returned by the k-th on() call is called
unsubscribe(k) ==
  /\ k \in DOMAIN subs
  /\ listeners' = removeListener(listeners, subs[k].callback)
  /\ subs' = [subs EXCEPT ![k].undone = TRUE]
  /\ last' = Returned("unsubscribe", "", k)
  /\ notified' = <<>>
  /\ UNCHANGED <<loop, kept,
                 runs, clock, appendLog, received, held, budgetCheck,
                 toolCall, policyVars, storeVars>>

\* ------------------------------------------------------------------------
\* kernel-run: the manager's operations
\* ------------------------------------------------------------------------
create_overwrite(runId) ==
  LET state == [envelope |-> Envelope(runId), status |-> "pending",
                step |-> 0, events |-> <<>>, started_at |-> Null,
                finished_at |-> Null, error |-> Null, tool_calls |-> 0,
                artifacts_created |-> 0, errors |-> 0]
  IN /\ runs' = [id \in DOMAIN runs \cup {runId} |->
                   IF id = runId THEN state ELSE runs[id]]
     /\ appendLog' = [id \in DOMAIN runs \cup {runId} |->
                        IF id = runId THEN <<>> ELSE appendLog[id]]
     /\ last' = Returned("create", runId, state)
     /\ NoEmit
     /\ UNCHANGED <<loop, kept,
                    clock, listeners, subs, held, budgetCheck, toolCall,
                    policyVars, storeVars>>

create(runId) ==
  /\ IF has(runId)
       THEN /\ last' = Threw("create", runId, AlreadyExists(runId))
            /\ UNCHANGED <<runs, appendLog>>
       ELSE LET state == [envelope |-> Envelope(runId),
                          status |-> "pending",
                          step |-> 0,
                          events |-> <<>>,
                          started_at |-> Null,
                          finished_at |-> Null,
                          error |-> Null,
                          tool_calls |-> 0,
                          artifacts_created |-> 0,
                          errors |-> 0]
            IN /\ runs' = runs @@ (runId :> state)
               /\ appendLog' = appendLog @@ (runId :> <<>>)
               /\ last' = Returned("create", runId, state)
  /\ NoEmit
  /\ UNCHANGED <<loop, kept, clock, listeners, subs, held, budgetCheck,
                 toolCall, policyVars, storeVars>>

\* a start() that writes started_at before it checks the transition
start_stampFirst(runId) ==
  /\ IF ~has(runId)
       THEN /\ last' = Threw("start", runId, NotFound(runId))
            /\ NoEmit
            /\ UNCHANGED runs
       ELSE IF ~canTransition(runs[runId].status, "running")
       THEN /\ last' = Threw("start", runId,
                             InvalidTransition(runs[runId], "running"))
            /\ NoEmit
            /\ runs' = [runs EXCEPT ![runId].started_at = Stamp(now)]
       ELSE LET r1 == transition(runs[runId], "running")
                r2 == [r1 EXCEPT !.started_at = Stamp(now)]
                r3 == recordEvent(r2, "run.started")
            IN /\ CanRecord
               /\ runs' = [runs EXCEPT ![runId] = r3]
               /\ Emit(lastEvent(r3))
               /\ last' = IF emitThrows(listeners)
                            THEN Threw("start", runId,
                                       ListenerThrew(notified'[Len(notified')]))
                            ELSE Returned("start", runId, lastEvent(r3))
  /\ UNCHANGED <<loop, kept,
                 clock, appendLog, listeners, subs, held, budgetCheck,
                 toolCall, policyVars, storeVars>>

start(runId) ==
  /\ IF ~has(runId)
       THEN /\ last' = Threw("start", runId, NotFound(runId))
            /\ NoEmit
            /\ UNCHANGED runs
       ELSE IF ~canTransition(runs[runId].status, "running")
       THEN /\ last' = Threw("start", runId,
                             InvalidTransition(runs[runId], "running"))
            /\ NoEmit
            /\ UNCHANGED runs
       ELSE LET r1 == transition(runs[runId], "running")
                r2 == [r1 EXCEPT !.started_at = Stamp(now)]
                r3 == recordEvent(r2, "run.started")
            IN /\ CanRecord
               /\ runs' = [runs EXCEPT ![runId] = r3]
               /\ Emit(lastEvent(r3))
               /\ last' = IF emitThrows(listeners)
                            THEN Threw("start", runId,
                                       ListenerThrew(notified'[Len(notified')]))
                            ELSE Returned("start", runId, lastEvent(r3))
  /\ UNCHANGED <<loop, kept,
                 clock, appendLog, listeners, subs, held, budgetCheck,
                 toolCall, policyVars, storeVars>>

append(runId, eventType) ==
  /\ IF ~has(runId)
       THEN /\ last' = Threw("append", runId, NotFound(runId))
            /\ NoEmit
            /\ UNCHANGED <<runs, appendLog>>
       ELSE IF runs[runId].status # "running"
       THEN /\ last' = Threw("append", runId, CannotAppend(runs[runId]))
            /\ NoEmit
            /\ UNCHANGED <<runs, appendLog>>
       ELSE /\ CanRecord
            /\ LET r1 == recordEvent(runs[runId], eventType)
                   r2 == bumpCounters(r1, eventType)
               IN /\ Emit(lastEvent(r1))
                  /\ IF emitThrows(listeners)
                       THEN /\ runs' = [runs EXCEPT ![runId] = r1]
                            /\ last' = Threw("append", runId,
                                 ListenerThrew(notified'[Len(notified')]))
                       ELSE /\ runs' = [runs EXCEPT ![runId] = r2]
                            /\ last' = Returned("append", runId, lastEvent(r1))
            /\ appendLog' = [appendLog EXCEPT ![runId] = Append(@, eventType)]
  /\ UNCHANGED <<loop, kept, clock, listeners, subs, held, budgetCheck,
                 toolCall, policyVars, storeVars>>

\* a complete() that leaves finished_at alone
complete_noStamp(runId) ==
  /\ IF ~has(runId)
       THEN /\ last' = Threw("complete", runId, NotFound(runId))
            /\ NoEmit
            /\ UNCHANGED runs
       ELSE IF ~canTransition(runs[runId].status, "completed")
       THEN /\ last' = Threw("complete", runId,
                             InvalidTransition(runs[runId], "completed"))
            /\ NoEmit
            /\ UNCHANGED runs
       ELSE LET r1 == transition(runs[runId], "completed")
                r2 == r1
                r3 == recordEvent(r2, "run.completed")
            IN /\ CanRecord
               /\ runs' = [runs EXCEPT ![runId] = r3]
               /\ Emit(lastEvent(r3))
               /\ last' = IF emitThrows(listeners)
                            THEN Threw("complete", runId,
                                       ListenerThrew(notified'[Len(notified')]))
                            ELSE Returned("complete", runId, buildSummary(r3))
  /\ UNCHANGED <<loop, kept,
                 clock, appendLog, listeners, subs, held, budgetCheck,
                 toolCall, policyVars, storeVars>>

complete(runId) ==
  /\ IF ~has(runId)
       THEN /\ last' = Threw("complete", runId, NotFound(runId))
            /\ NoEmit
            /\ UNCHANGED runs
       ELSE IF ~canTransition(runs[runId].status, "completed")
       THEN /\ last' = Threw("complete", runId,
                             InvalidTransition(runs[runId], "completed"))
            /\ NoEmit
            /\ UNCHANGED runs
       ELSE LET r1 == transition(runs[runId], "completed")
                r2 == [r1 EXCEPT !.finished_at = Stamp(now)]
                r3 == recordEvent(r2, "run.completed")
            IN /\ CanRecord
               /\ runs' = [runs EXCEPT ![runId] = r3]
               /\ Emit(lastEvent(r3))
               /\ last' = IF emitThrows(listeners)
                            THEN Threw("complete", runId,
                                       ListenerThrew(notified'[Len(notified')]))
                            ELSE Returned("complete", runId, buildSummary(r3))
  /\ UNCHANGED <<loop, kept,
                 clock, appendLog, listeners, subs, held, budgetCheck,
                 toolCall, policyVars, storeVars>>

\* a fail() that sets the error counter back instead of adding to it
fail_resetErrors(runId, error) ==
  /\ IF ~has(runId)
       THEN /\ last' = Threw("fail", runId, NotFound(runId))
            /\ NoEmit
            /\ UNCHANGED runs
       ELSE IF ~canTransition(runs[runId].status, "failed")
       THEN /\ last' = Threw("fail", runId,
                             InvalidTransition(runs[runId], "failed"))
            /\ NoEmit
            /\ UNCHANGED runs
       ELSE LET r1 == transition(runs[runId], "failed")
                r2 == [r1 EXCEPT !.finished_at = Stamp(now),
                                 !.error = error,
                                 !.errors = 0]
                r3 == recordEvent(r2, "run.failed")
            IN /\ CanRecord
               /\ runs' = [runs EXCEPT ![runId] = r3]
               /\ Emit(lastEvent(r3))
               /\ last' = IF emitThrows(listeners)
                            THEN Threw("fail", runId,
                                       ListenerThrew(notified'[Len(notified')]))
                            ELSE Returned("fail", runId, buildSummary(r3))
  /\ UNCHANGED <<loop, kept,
                 clock, appendLog, listeners, subs, held, budgetCheck,
                 toolCall, policyVars, storeVars>>

\* a fail() without run.errors++
fail_noCount(runId, error) ==
  /\ IF ~has(runId)
       THEN /\ last' = Threw("fail", runId, NotFound(runId))
            /\ NoEmit
            /\ UNCHANGED runs
       ELSE IF ~canTransition(runs[runId].status, "failed")
       THEN /\ last' = Threw("fail", runId,
                             InvalidTransition(runs[runId], "failed"))
            /\ NoEmit
            /\ UNCHANGED runs
       ELSE LET r1 == transition(runs[runId], "failed")
                r2 == [r1 EXCEPT !.finished_at = Stamp(now),
                                 !.error = error]
                r3 == recordEvent(r2, "run.failed")
            IN /\ CanRecord
               /\ runs' = [runs EXCEPT ![runId] = r3]
               /\ Emit(lastEvent(r3))
               /\ last' = IF emitThrows(listeners)
                            THEN Threw("fail", runId,
                                       ListenerThrew(notified'[Len(notified')]))
                            ELSE Returned("fail", runId, buildSummary(r3))
  /\ UNCHANGED <<loop, kept,
                 clock, appendLog, listeners, subs, held, budgetCheck,
                 toolCall, policyVars, storeVars>>

fail(runId, error) ==
  /\ IF ~has(runId)
       THEN /\ last' = Threw("fail", runId, NotFound(runId))
            /\ NoEmit
            /\ UNCHANGED runs
       ELSE IF ~canTransition(runs[runId].status, "failed")
       THEN /\ last' = Threw("fail", runId,
                             InvalidTransition(runs[runId], "failed"))
            /\ NoEmit
            /\ UNCHANGED runs
       ELSE LET r1 == transition(runs[runId], "failed")
                r2 == [r1 EXCEPT !.finished_at = Stamp(now),
                                 !.error = error,
                                 !.errors = @ + 1]
                r3 == recordEvent(r2, "run.failed")
            IN /\ CanRecord
               /\ runs' = [runs EXCEPT ![runId] = r3]
               /\ Emit(lastEvent(r3))
               /\ last' = IF emitThrows(listeners)
                            THEN Threw("fail", runId,
                                       ListenerThrew(notified'[Len(notified')]))
                            ELSE Returned("fail", runId, buildSummary(r3))
  /\ UNCHANGED <<loop, kept,
                 clock, appendLog, listeners, subs, held, budgetCheck,
                 toolCall, policyVars, storeVars>>

\* a cancel() that cancels every run that can be cancelled
cancel_all(runId) ==
  /\ IF ~has(runId)
       THEN /\ last' = Threw("cancel", runId, NotFound(runId))
            /\ NoEmit
            /\ UNCHANGED runs
       ELSE IF ~canTransition(runs[runId].status, "cancelled")
       THEN /\ last' = Threw("cancel", runId,
                             InvalidTransition(runs[runId], "cancelled"))
            /\ NoEmit
            /\ UNCHANGED runs
       ELSE LET r1 == transition(runs[runId], "cancelled")
                r2 == [r1 EXCEPT !.finished_at = Stamp(now)]
                r3 == recordEvent(r2, "run.completed")
            IN /\ CanRecord
               /\ runs' = [id \in DOMAIN runs |->
                             IF id = runId THEN r3
                             ELSE IF canTransition(runs[id].status,
                                                   "cancelled")
                               THEN transition(runs[id], "cancelled")
                             ELSE runs[id]]
               /\ Emit(lastEvent(r3))
               /\ last' = IF emitThrows(listeners)
                            THEN Threw("cancel", runId,
                                       ListenerThrew(notified'[Len(notified')]))
                            ELSE Returned("cancel", runId, buildSummary(r3))
  /\ UNCHANGED <<loop, kept,
                 clock, appendLog, listeners, subs, held, budgetCheck,
                 toolCall, policyVars, storeVars>>

cancel(runId) ==
  /\ IF ~has(runId)
       THEN /\ last' = Threw("cancel", runId, NotFound(runId))
            /\ NoEmit
            /\ UNCHANGED runs
       ELSE IF ~canTransition(runs[runId].status, "cancelled")
       THEN /\ last' = Threw("cancel", runId,
                             InvalidTransition(runs[runId], "cancelled"))
            /\ NoEmit
            /\ UNCHANGED runs
       ELSE LET r1 == transition(runs[runId], "cancelled")
                r2 == [r1 EXCEPT !.finished_at = Stamp(now)]
                r3 == recordEvent(r2, "run.completed")
            IN /\ CanRecord
               /\ runs' = [runs EXCEPT ![runId] = r3]
               /\ Emit(lastEvent(r3))
               /\ last' = IF emitThrows(listeners)
                            THEN Threw("cancel", runId,
                                       ListenerThrew(notified'[Len(notified')]))
                            ELSE Returned("cancel", runId, buildSummary(r3))
  /\ UNCHANGED <<loop, kept,
                 clock, appendLog, listeners, subs, held, budgetCheck,
                 toolCall, policyVars, storeVars>>

\* ------------------------------------------------------------------------
\* kernel-run: queries.  An array value is the items with the identity of
\* the array object: the run's own log array or a fresh one.
\* ------------------------------------------------------------------------
\* an events() that hands out the log array itself
slice_sameArray(arr) == [fresh |-> FALSE, items |-> arr]

\* Array.prototype.slice(): a new array with the same items
slice(arr) == [fresh |-> TRUE, items |-> arr]

\* a get() that throws for an unknown id, as require() does
getOrNull_throwing(runId) ==
  IF has(runId) THEN Returned("get", runId, runs[runId])
  ELSE Threw("get", runId, NotFound(runId))

\* this.runs.get(runId) ?? null
getOrNull(runId) ==
  Returned("get", runId, IF has(runId) THEN runs[runId] ELSE Null)

get(runId) ==
  /\ last' = getOrNull(runId)
  /\ NoEmit
  /\ UNCHANGED <<loop, kept,
                 runs, clock, appendLog, listeners, subs, held, budgetCheck,
                 toolCall, policyVars, storeVars>>

currentStep(runId) ==
  /\ last' = IF ~has(runId) THEN Threw("currentStep", runId, NotFound(runId))
             ELSE Returned("currentStep", runId, runs[runId].step)
  /\ NoEmit
  /\ UNCHANGED <<loop, kept,
                 runs, clock, appendLog, listeners, subs, held, budgetCheck,
                 toolCall, policyVars, storeVars>>

events(runId) ==
  /\ IF ~has(runId)
       THEN /\ last' = Threw("events", runId, NotFound(runId))
            /\ UNCHANGED held
       ELSE /\ last' = Returned("events", runId,
                                slice(runs[runId].events).items)
            /\ held' = [run_id |-> runId, array |-> slice(runs[runId].events)]
  /\ NoEmit
  /\ UNCHANGED <<loop, kept,
                 runs, clock, appendLog, listeners, subs, budgetCheck, toolCall,
                 policyVars, storeVars>>

isOverBudget(runId) ==
  /\ last' =
       IF ~has(runId) THEN Threw("isOverBudget", runId, NotFound(runId))
       ELSE LET run == runs[runId]
                elapsed == IF run.started_at # Null
                             THEN clock - run.started_at.t ELSE 0
            IN Returned("isOverBudget", runId,
                        [time |-> elapsed > run.envelope.budgets.max_time_ms,
                         tokens |-> FALSE])
  /\ NoEmit
  /\ UNCHANGED <<loop, kept,
                 runs, clock, appendLog, listeners, subs, held, budgetCheck,
                 toolCall, policyVars, storeVars>>

\* an item made by the caller, not by the manager
Forged ==
  [run_id |-> "", agent_id |-> "", step_id |-> 0, event |-> "forged",
   timestamp |-> 0]

ArrayEdits == {"push", "pop", "set"}

\* arr.push(x), arr.pop(), arr[0] = x
applyEdit(items, edit) ==
  IF edit = "push" THEN Append(items, Forged)
  ELSE IF edit = "pop"
    THEN (IF items = <<>> THEN <<>> ELSE SubSeq(items, 1, Len(items) - 1))
  ELSE IF items = <<>> THEN <<Forged>> ELSE [items EXCEPT ![1] = Forged]

\* the caller edits the array it got from events(); the run's log changes
\* with it only when that array is the log array itself
modifyHeld(edit) ==
  /\ held # Null
  /\ Len(held.array.items) <= MaxEvents
  /\ held' = [held EXCEPT !.array.items = applyEdit(@, edit)]
  /\ IF held.array.fresh
       THEN UNCHANGED runs
       ELSE runs' = [runs EXCEPT
                       ![held.run_id].events = applyEdit(@, edit)]
  /\ last' = Returned("modifyHeld", held.run_id, edit)
  /\ UNCHANGED <<loop, kept,
                 clock, appendLog, listenVars, budgetCheck, toolCall,
                 policyVars, storeVars>>

\* ------------------------------------------------------------------------
\* kernel-policy: scope matching.  Strings that are pattern-matched are
\* sequences of one-character strings.
\* ------------------------------------------------------------------------
\* characters escaped by /[.+^${}()|[\]\\]/g
REGEX_SPECIALS == {".", "+", "^", "$", "{", "}", "(", ")", "|", "[", "]", "\\"}

\* characters the regex `.` does not match (no s flag)
LINE_TERMINATORS == {"\n", "\r"}

Raw(c) == [t |-> "raw", c |-> c]

\* .replace(/[.+^${}()|[\]\\]/g, "\\$&"): special characters become literals
EscapeSpecials(text) ==
  [i \in DOMAIN text |->
     IF text[i].t = "raw" /\ text[i].c \in REGEX_SPECIALS
       THEN [t |-> "lit", c |-> text[i].c] ELSE text[i]]

IsRaw(x, c) == x.t = "raw" /\ x.c = c

\* .replace(/\*\*/g, "{{GLOBSTAR}}"): leftmost, non-overlapping pairs
RECURSIVE ReplaceStarStar(_)
ReplaceStarStar(text) ==
  IF Len(text) = 0 THEN <<>>
  ELSE IF Len(text) >= 2 /\ IsRaw(text[1], "*") /\ IsRaw(text[2], "*")
    THEN <<[t |-> "GLOBSTAR", c |-> ""]>>
           \o ReplaceStarStar(SubSeq(text, 3, Len(text)))
  ELSE <<text[1]>> \o ReplaceStarStar(Tail(text))

\* .replace(/\*/g, "[^/]*"), .replace(/\?/g, "[^/]"),
\* .replace(/\{\{GLOBSTAR\}\}/g, ".*")
ReplaceOne(text, from, to) ==
  [i \in DOMAIN text |->
     IF text[i].t = from.t /\ text[i].c = from.c THEN to ELSE text[i]]

globToRegex(pattern) ==
  LET p0 == [i \in DOMAIN pattern |-> Raw(pattern[i])]
      p1 == EscapeSpecials(p0)
      p2 == ReplaceStarStar(p1)
      p3 == ReplaceOne(p2, Raw("*"), [t |-> "notslash*", c |-> ""])
      p4 == ReplaceOne(p3, Raw("?"), [t |-> "notslash", c |-> ""])
      p5 == ReplaceOne(p4, [t |-> "GLOBSTAR", c |-> ""],
                       [t |-> "dotstar", c |-> ""])
  IN p5

\* new RegExp(`^${regexStr}$`).test(scope), from regex position i and
\* scope position j.  A "lit" token is an escaped character; of the
\* characters that are left raw only "." is special among those explored.
RECURSIVE regexMatch(_, _, _, _)
regexMatch(re, i, s, j) ==
  IF i > Len(re) THEN j > Len(s)
  ELSE IF re[i].t = "raw" /\ re[i].c = "."
    THEN j <= Len(s) /\ s[j] \notin LINE_TERMINATORS
           /\ regexMatch(re, i + 1, s, j + 1)
  ELSE IF re[i].t \in {"raw", "lit"}
    THEN j <= Len(s) /\ s[j] = re[i].c /\ regexMatch(re, i + 1, s, j + 1)
  ELSE IF re[i].t = "notslash"
    THEN j <= Len(s) /\ s[j] # "/" /\ regexMatch(re, i + 1, s, j + 1)
  ELSE IF re[i].t = "notslash*"
    THEN \/ regexMatch(re, i + 1, s, j)
         \/ j <= Len(s) /\ s[j] # "/" /\ regexMatch(re, i, s, j + 1)
  ELSE \/ regexMatch(re, i + 1, s, j)
       \/ j <= Len(s) /\ s[j] \notin LINE_TERMINATORS
            /\ regexMatch(re, i, s, j + 1)

regexTest(re, s) == regexMatch(re, 1, s, 1)

matchesScope(pattern, scope) ==
  IF pattern = <<"*">> THEN TRUE
  ELSE IF pattern = scope THEN TRUE
  ELSE regexTest(globToRegex(pattern), scope)

\* ------------------------------------------------------------------------
\* kernel-policy: rule evaluation
\* ------------------------------------------------------------------------
ruleMatches(rule, action, scope) ==
  rule.action = action /\ matchesScope(rule.scope, scope)

\* the for-of loop of findMatchingRule, from index i
RECURSIVE findFrom(_, _, _, _)
findFrom(rules, i, action, scope) ==
  IF i > Len(rules) THEN Null
  ELSE IF ruleMatches(rules[i], action, scope) THEN rules[i]
  ELSE findFrom(rules, i + 1, action, scope)

\* a search that keeps the last matching rule instead of the first
RECURSIVE findLastFrom(_, _, _, _)
findLastFrom(rules, i, action, scope) ==
  IF i < 1 THEN Null
  ELSE IF ruleMatches(rules[i], action, scope) THEN rules[i]
  ELSE findLastFrom(rules, i - 1, action, scope)

findMatchingRule_last(rules, action, scope) ==
  findLastFrom(rules, Len(rules), action, scope)

findMatchingRule(rules, action, scope) == findFrom(rules, 1, action, scope)

NoRuleReason(action, scope) ==
  [template |->
     "No rule matches action=\"${action}\" scope=\"${scope}\"; default deny",
   action |-> action, scope |-> scope]

MatchedReason(rule) ==
  [template |-> "Matched rule: ${rule.action} @ ${rule.scope}",
   action |-> rule.action, scope |-> rule.scope]

\* an evaluate() whose default is to allow
evaluate_defaultAllow(prof, action, scope) ==
  LET rule == findMatchingRule(prof.rules, action, scope)
  IN IF rule = Null
       THEN [rule |-> Null, decision |-> "ALLOW",
             reason |-> NoRuleReason(action, scope), timestamp |-> now]
       ELSE [rule |-> rule, decision |-> rule.decision,
             reason |-> IF rule.reason # Null THEN rule.reason
                        ELSE MatchedReason(rule),
             timestamp |-> now]

evaluate(prof, action, scope) ==
  LET rule == findMatchingRule(prof.rules, action, scope)
  IN IF rule = Null
       THEN [rule |-> Null, decision |-> "DENY",
             reason |-> NoRuleReason(action, scope), timestamp |-> now]
       ELSE [rule |-> rule, decision |-> rule.decision,
             reason |-> IF rule.reason # Null THEN rule.reason
                        ELSE MatchedReason(rule),
             timestamp |-> now]

\* ------------------------------------------------------------------------
\* kernel-policy: checkBudget.  A violation string is kept as its fixed
\* text and the two numbers formatted into it.
\* ------------------------------------------------------------------------
Violation(text, used, max) == [text |-> text, used |-> used, max |-> max]

\* a checkBudget() that returns at the first violation
checkBudget_firstOnly(budgets, usage) ==
  LET v == IF usage.elapsed_ms > budgets.max_time_ms
             THEN <<Violation("Time budget exceeded", usage.elapsed_ms,
                              budgets.max_time_ms)>>
           ELSE IF usage.tokens_used > budgets.max_tokens
             THEN <<Violation("Token budget exceeded", usage.tokens_used,
                              budgets.max_tokens)>>
           ELSE IF budgets.max_tool_calls # Null
                     /\ usage.tool_calls > budgets.max_tool_calls.value
             THEN <<Violation("Tool call budget exceeded", usage.tool_calls,
                              budgets.max_tool_calls.value)>>
           ELSE IF budgets.max_artifacts_mb # Null
                     /\ usage.artifacts_mb > budgets.max_artifacts_mb.value
             THEN <<Violation("Artifact budget exceeded", usage.artifacts_mb,
                              budgets.max_artifacts_mb.value)>>
           ELSE <<>>
  IN [within_budget |-> Len(v) = 0, violations |-> v]

\* checkBudget(): four independent tests, each pushing one violation
checkBudget(budgets, usage) ==
  LET v0 == <<>>
      v1 == IF usage.elapsed_ms > budgets.max_time_ms
              THEN Append(v0, Violation("Time budget exceeded",
                                        usage.elapsed_ms, budgets.max_time_ms))
              ELSE v0
      v2 == IF usage.tokens_used > budgets.max_tokens
              THEN Append(v1, Violation("Token budget exceeded",
                                        usage.tokens_used, budgets.max_tokens))
              ELSE v1
      v3 == IF budgets.max_tool_calls # Null
                 /\ usage.tool_calls > budgets.max_tool_calls.value
              THEN Append(v2, Violation("Tool call budget exceeded",
                                        usage.tool_calls,
                                        budgets.max_tool_calls.value))
              ELSE v2
      v4 == IF budgets.max_artifacts_mb # Null
                 /\ usage.artifacts_mb > budgets.max_artifacts_mb.value
              THEN Append(v3, Violation("Artifact budget exceeded",
                                        usage.artifacts_mb,
                                        budgets.max_artifacts_mb.value))
              ELSE v3
  IN [within_budget |-> Len(v4) = 0, violations |-> v4]

\* RunBudgets and BudgetUsage values handed to checkBudget(); an optional
\* ceiling is Null when undefined and Some(n) when it is the number n
Ceilings == 0..(MaxUsage - 1)

Some(n) == [value |-> n]

OptionalCeilings == {Null} \cup {Some(n) : n \in Ceilings}

BudgetInputs ==
  [max_time_ms : Ceilings, max_tokens : Ceilings,
   max_tool_calls : OptionalCeilings,
   max_artifacts_mb : OptionalCeilings]

UsageInputs ==
  [elapsed_ms : 0..MaxUsage, tokens_used : 0..MaxUsage,
   tool_calls : 0..MaxUsage, artifacts_mb : 0..MaxUsage]

\* the caller calls checkBudget(budgets, usage)
CheckBudget(budgets, usage) ==
  /\ budgetCheck' = [budgets |-> budgets, usage |-> usage,
                     result |-> checkBudget(budgets, usage)]
  /\ UNCHANGED <<loop, kept, runVars, policyVars, storeVars, listenVars, held,
                 toolCall>>

\* ------------------------------------------------------------------------
\* kernel-policy: buildProfile
\* ------------------------------------------------------------------------
DEFAULT_MAX_TIME_MS == 3600000
DEFAULT_MAX_TOKENS == 100000

DeniedRules(config) ==
  [i \in DOMAIN config.denied |->
     [action |-> config.denied[i].action, scope |-> config.denied[i].scope,
      decision |-> "DENY", reason |-> config.denied[i].reason,
      condition |-> Null]]

ApprovalRules(config) ==
  [i \in DOMAIN config.approval_required |->
     [action |-> config.approval_required[i].action,
      scope |-> config.approval_required[i].scope,
      decision |-> "REQUIRE_APPROVAL",
      reason |-> config.approval_required[i].reason,
      condition |-> Null]]

AllowedRules(config) ==
  [i \in DOMAIN config.allowed |->
     [action |-> config.allowed[i].action, scope |-> config.allowed[i].scope,
      decision |-> "ALLOW", reason |-> Null,
      condition |-> config.allowed[i].condition]]

ProfileBudgets(config) ==
  [max_time_ms |-> IF config.budgets = Null THEN DEFAULT_MAX_TIME_MS
                   ELSE config.budgets.max_time_ms,
   max_tokens |-> IF config.budgets = Null THEN DEFAULT_MAX_TOKENS
                  ELSE config.budgets.max_tokens,
   max_tool_calls |-> IF config.budgets = Null THEN Null
                      ELSE config.budgets.max_tool_calls,
   max_artifacts_mb |-> IF config.budgets = Null THEN Null
                        ELSE config.budgets.max_artifacts_mb]

\* a builder that pushes the rules in the order allowed, approval, denied
buildProfile_allowFirst(config) ==
  [name |-> config.name,
   rules |-> AllowedRules(config) \o ApprovalRules(config)
               \o DeniedRules(config),
   budgets |-> ProfileBudgets(config)]

buildProfile(config) ==
  [name |-> config.name,
   rules |-> DeniedRules(config) \o ApprovalRules(config)
               \o AllowedRules(config),
   budgets |-> ProfileBudgets(config)]

\* ------------------------------------------------------------------------
\* kernel-policy: inputs
\* ------------------------------------------------------------------------
PolicyActions == {"git.push", "file.read"}
ScopePatterns == {<<"*">>, <<"a", "/", "*">>, <<"a", "/", "*", "*">>}
QueryScopes == {<<"a">>, <<"a", "/", "b">>, <<"a", "/", "b", "/", "c">>}
Decisions == {"ALLOW", "DENY", "REQUIRE_APPROVAL"}

SeqsUpTo(S, n) == UNION {[1..k -> S] : k \in 0..n}

LiteralRules ==
  [action : PolicyActions, scope : ScopePatterns, decision : Decisions,
   reason : {Null}, condition : {Null}]

ConfigEntries ==
  [action : PolicyActions, scope : ScopePatterns, reason : {Null},
   condition : {Null}]

ListOf(tagged, list) ==
  LET sel == SelectSeq(tagged, LAMBDA x : x.list = list)
  IN [i \in DOMAIN sel |-> sel[i].entry]

\* the configs whose three lists hold at most MaxEntries entries in total
Configs ==
  {[name |-> "profile",
    denied |-> ListOf(tagged, "denied"),
    approval_required |-> ListOf(tagged, "approval_required"),
    allowed |-> ListOf(tagged, "allowed"),
    budgets |-> Null] :
     tagged \in SeqsUpTo([list : {"denied", "approval_required", "allowed"},
                          entry : ConfigEntries], MaxEntries)}

PolicyInputs ==
  {[kind |-> "config", config |-> c, rules |-> <<>>] : c \in Configs}
    \cup {[kind |-> "rules", config |-> Null, rules |-> rs] :
            rs \in SeqsUpTo(LiteralRules, MaxRules)}

NoInput == [kind |-> "none", config |-> Null, rules |-> <<>>]

\* the caller calls buildProfile(config)
BuildProfile ==
  /\ input.kind = "config"
  /\ profile = Null
  /\ profile' = buildProfile(input.config)
  /\ UNCHANGED <<input, evaluation, fnCall, runVars, storeVars, callerVars>>

\* the caller writes the PolicyProfile as a literal
LiteralProfile ==
  /\ input.kind = "rules"
  /\ profile = Null
  /\ profile' = [name |-> "profile", rules |-> input.rules,
                 budgets |-> [max_time_ms |-> DEFAULT_MAX_TIME_MS,
                              max_tokens |-> DEFAULT_MAX_TOKENS,
                              max_tool_calls |-> Null,
                              max_artifacts_mb |-> Null]]
  /\ UNCHANGED <<input, evaluation, fnCall, runVars, storeVars, callerVars>>

\* the caller calls evaluate(profile, action, scope)
Evaluate(action, scope) ==
  /\ profile # Null
  /\ evaluation' = [action |-> action, scope |-> scope,
                    result |-> evaluate(profile, action, scope)]
  /\ UNCHANGED <<input, profile, fnCall, runVars, storeVars, callerVars>>

\* new AgentLoop(config): no active run, no generator
IdleLoop ==
  [activeRunId |-> Null, pc |-> "idle", run_id |-> "", consumer |-> "",
   phase |-> "idle"]

InitRun ==
  /\ runs = <<>>
  /\ clock = 0
  /\ last = [op |-> "new", run_id |-> "", ok |-> TRUE, error |-> Null,
             ret |-> Null]
  /\ appendLog = <<>>
  /\ listeners = <<>>
  /\ received = [cb \in Callbacks \cup Reactive |-> <<>>]
  /\ notified = <<>>
  /\ subs = <<>>
  /\ held = Null
  /\ budgetCheck = Null
  /\ toolCall = Null
  /\ fnCall = Null
  /\ kept = <<>>
  /\ loop = IdleLoop

\* new ArtifactStore(): an empty backend and an empty metadata index
EmptyStore ==
  /\ memStore = <<>>
  /\ files = <<>>
  /\ inodes = <<>>
  /\ metadata = <<>>
  /\ calls = [c \in {"c1", "c2"} |-> [pc |-> "idle", data |-> <<>>,
                mime |-> "", runId |-> "", hash |-> 0, exists |-> FALSE,
                fd |-> 0, result |-> Null]]
  /\ storeLog = <<>>
  /\ storeCall = Null
  /\ live = <<>>

InitArtifacts == backendKind = "memory" /\ EmptyStore

InitPolicy ==
  /\ InitRun
  /\ InitArtifacts
  /\ input \in PolicyInputs
  /\ profile = Null
  /\ evaluation = Null

NextPolicy ==
  \/ BuildProfile
  \/ LiteralProfile
  \/ \E a \in PolicyActions : \E sc \in QueryScopes : Evaluate(a, sc)

SpecPolicy == InitPolicy /\ [][NextPolicy]_vars

\* ------------------------------------------------------------------------
\* ai-sdk tool bridge: bridgeTools / createPolicyGate
\* ------------------------------------------------------------------------
ToolNames == {<<"q">>, <<"s">>, <<"s", "t">>}

\* rules of the profiles the gate is made from
BridgeRules ==
  [action : {"tool.execute", "file.read"},
   scope : {<<"*">>, <<"s">>, <<"s", "?">>},
   decision : Decisions, reason : {Null}, condition : {Null}]

BridgeInputs ==
  {[kind |-> "rules", config |-> Null, rules |-> rs] :
     rs \in SeqsUpTo(BridgeRules, MaxRules)}

\* createPolicyGate(profile): (toolName, _args) => evaluate(...)
createPolicyGate(prof, toolName) == evaluate(prof, "tool.execute", toolName)

\* what options.executor(contract.name, args) resolves to
ExecutorResult(toolName) == [result |-> "done", tool |-> toolName]

\* an execute() that lets REQUIRE_APPROVAL through to the executor
execute_denyOnly(gated, prof, toolName) ==
  LET ev == IF gated THEN createPolicyGate(prof, toolName) ELSE Null
  IN IF gated /\ ev.decision = "DENY"
       THEN [evaluation |-> ev, executorCalls |-> <<>>,
             result |-> [error |-> [text |-> "Policy denied: ",
                                    reason |-> ev.reason],
                         denied |-> TRUE]]
       ELSE [evaluation |-> ev, executorCalls |-> <<toolName>>,
             result |-> ExecutorResult(toolName)]

\* the execute function bridgeTools gives a contract's tool: the gate,
\* when there is one, is asked first; the executor runs unless it said
\* DENY or REQUIRE_APPROVAL
execute(gated, prof, toolName) ==
  LET ev == IF gated THEN createPolicyGate(prof, toolName) ELSE Null
  IN IF gated /\ ev.decision = "DENY"
       THEN [evaluation |-> ev, executorCalls |-> <<>>,
             result |-> [error |-> [text |-> "Policy denied: ",
                                    reason |-> ev.reason],
                         denied |-> TRUE]]
     ELSE IF gated /\ ev.decision = "REQUIRE_APPROVAL"
       THEN [evaluation |-> ev, executorCalls |-> <<>>,
             result |-> [error |-> [text |-> "Requires approval: ",
                                    reason |-> ev.reason],
                         requires_approval |-> TRUE]]
     ELSE [evaluation |-> ev, executorCalls |-> <<toolName>>,
           result |-> ExecutorResult(toolName)]

\* tools[name].execute(args) is called and awaited
ExecuteTool(gated, toolName) ==
  /\ profile # Null
  /\ toolCall' = [tool |-> toolName, gated |-> gated]
                   @@ execute(gated, profile, toolName)
  /\ UNCHANGED <<loop, kept, runVars, policyVars, storeVars, listenVars, held,
                 budgetCheck>>

InitBridge ==
  /\ InitRun
  /\ InitArtifacts
  /\ input \in BridgeInputs
  /\ profile = Null
  /\ evaluation = Null

NextBridge ==
  \/ LiteralProfile
  \/ \E gated \in BOOLEAN : \E name \in ToolNames : ExecuteTool(gated, name)

SpecBridge == InitBridge /\ [][NextBridge]_vars

\* one call of checkBudget() per behaviour
NextBudget ==
  /\ budgetCheck = Null
  /\ \E budgets \in BudgetInputs : \E usage \in UsageInputs :
       CheckBudget(budgets, usage)

InitBudget ==
  /\ InitRun
  /\ InitArtifacts
  /\ input = NoInput
  /\ profile = Null
  /\ evaluation = Null

SpecBudget == InitBudget /\ [][NextBudget]_vars

\* ------------------------------------------------------------------------
\* kernel-artifact: hashing and handles.  Byte arrays are sequences of
\* numbers.
\* ------------------------------------------------------------------------
\* SHA-256 is taken to be collision-free on the contents explored: the
\* digest is an injective code of the byte sequence.
\* a digest of the first byte only, as the synchronous stub store() takes a
\* prefix of the data
sha256_firstByte(data) == IF Len(data) = 0 THEN 1 ELSE data[1] + 2

RECURSIVE sha256(_)
sha256(data) ==
  IF Len(data) = 0 THEN 1
  ELSE (data[1] + 2) + 258 * sha256(Tail(data))

ARTIFACT_SCHEME == "artifact://"

\* `artifact://sha256/${sha256hex}`: the scheme and the "/"-separated path
artifactHandle(sha256hex) ==
  [scheme |-> ARTIFACT_SCHEME, path |-> <<"sha256", sha256hex>>]

\* ------------------------------------------------------------------------
\* kernel-artifact: backends
\* ------------------------------------------------------------------------
TargetPath(hash) == [name |-> hash, ext |-> ""]
TmpPath(hash) == [name |-> hash, ext |-> ".tmp"]

\* backend.has(hash): Map.has, or stat() of the target path
backendHas(hash) ==
  IF backendKind = "memory" THEN hash \in DOMAIN memStore
  ELSE TargetPath(hash) \in DOMAIN files

FreshInode == Cardinality(DOMAIN inodes) + 1

\* ------------------------------------------------------------------------
\* kernel-artifact: ArtifactStore.store, one action per resumption
\* ------------------------------------------------------------------------
Slots == {"c1", "c2"}
Blobs == {<<1>>, <<2>>, <<1, 2>>}
Mimes == {"text/plain", "application/json"}

IdleCall ==
  [pc |-> "idle", data |-> <<>>, mime |-> "", runId |-> "", hash |-> 0,
   exists |-> FALSE, fd |-> 0, result |-> Null]

Issued == Len(storeLog) + Cardinality({c \in Slots : calls[c].pc
                                         \notin {"idle", "done"}})

InFlight(c) == calls[c].pc \notin {"idle", "done"}

\* store(data, mime, runId) is called: it awaits sha256(data)
BeginStore(c, data, mime, runId) ==
  /\ ~InFlight(c)
  /\ Issued < MaxStores
  /\ calls' = [calls EXCEPT ![c] =
                 [IdleCall EXCEPT !.pc = "sha256", !.data = data,
                                  !.mime = mime, !.runId = runId]]
  /\ UNCHANGED <<storeCall, live,
               backendKind, memStore, files, inodes, metadata, storeLog,
               runVars, policyVars, callerVars>>

\* the digest resolves and backend.has(hash) is called and awaited: the
\* body of MemoryBackend.has has no await and reads the map within the
\* call, FilesystemBackend.has reads the directory later
Hashed(c) ==
  /\ calls[c].pc = "sha256"
  /\ calls' =
       LET hash == sha256(calls[c].data)
       IN IF backendKind = "memory"
            THEN [calls EXCEPT ![c].hash = hash,
                               ![c].exists = hash \in DOMAIN memStore,
                               ![c].pc = IF hash \in DOMAIN memStore
                                           THEN "meta" ELSE "put"]
          ELSE [calls EXCEPT ![c].hash = hash, ![c].pc = "has"]
  /\ UNCHANGED <<storeCall, live,
               backendKind, memStore, files, inodes, metadata, storeLog,
               runVars, policyVars, callerVars>>

\* FilesystemBackend.has(hash): stat() of the target path
HasChecked(c) ==
  /\ calls[c].pc = "has"
  /\ calls' = [calls EXCEPT
                 ![c].exists = backendHas(calls[c].hash),
                 ![c].pc = IF backendHas(calls[c].hash) THEN "meta"
                           ELSE "mkdir"]
  /\ UNCHANGED <<storeCall, live,
               backendKind, memStore, files, inodes, metadata, storeLog,
               runVars, policyVars, callerVars>>

\* MemoryBackend.put: this.store.set(hash, data)
MemoryPut(c) ==
  /\ calls[c].pc = "put"
  /\ memStore' = (calls[c].hash :> calls[c].data) @@ memStore
  /\ calls' = [calls EXCEPT ![c].pc = "meta"]
  /\ UNCHANGED <<storeCall, live,
               backendKind, files, inodes, metadata, storeLog,
               runVars, policyVars, callerVars>>

\* FilesystemBackend.put: await mkdir(artifactsDir, { recursive: true })
FsMkdir(c) ==
  /\ calls[c].pc = "mkdir"
  /\ calls' = [calls EXCEPT ![c].pc = "open"]
  /\ UNCHANGED <<storeCall, live,
               backendKind, memStore, files, inodes, metadata, storeLog,
               runVars, policyVars, callerVars>>

\* writeFile(tmp, data) opens tmp with flag 'w': create or truncate
FsOpen(c) ==
  /\ calls[c].pc = "open"
  /\ LET tmp == TmpPath(calls[c].hash)
         ino == IF tmp \in DOMAIN files THEN files[tmp] ELSE FreshInode
     IN /\ files' = (tmp :> ino) @@ files
        /\ inodes' = (ino :> <<>>) @@ inodes
        /\ calls' = [calls EXCEPT ![c].fd = ino, ![c].pc = "write"]
  /\ UNCHANGED <<storeCall, live,
               backendKind, memStore, metadata, storeLog,
               runVars, policyVars, callerVars>>

\* writeFile(tmp, data) writes the bytes through its descriptor and closes
FsWrite(c) ==
  /\ calls[c].pc = "write"
  /\ inodes' = [inodes EXCEPT ![calls[c].fd] = calls[c].data]
  /\ calls' = [calls EXCEPT ![c].pc = "rename"]
  /\ UNCHANGED <<storeCall, live,
               backendKind, memStore, files, metadata, storeLog,
               runVars, policyVars, callerVars>>

\* rename(tmp, target): ENOENT when tmp is gone, else replaces target
FsRename(c) ==
  /\ calls[c].pc = "rename"
  /\ LET tmp == TmpPath(calls[c].hash)
         target == TargetPath(calls[c].hash)
     IN IF tmp \notin DOMAIN files
          THEN /\ calls' = [calls EXCEPT
                              ![c].pc = "done",
                              ![c].result = [ok |-> FALSE, error |-> "ENOENT",
                                             handle |-> Null]]
               /\ storeLog' = Append(storeLog,
                                [data |-> calls[c].data, mime |-> calls[c].mime,
                                 runId |-> calls[c].runId, ok |-> FALSE,
                                 handle |-> Null])
               /\ UNCHANGED files
          ELSE /\ files' = [q \in (DOMAIN files \ {tmp}) \cup {target} |->
                              IF q = target THEN files[tmp] ELSE files[q]]
               /\ calls' = [calls EXCEPT ![c].pc = "meta"]
               /\ UNCHANGED storeLog
  /\ UNCHANGED <<storeCall, live,
               backendKind, memStore, inodes, metadata,
               runVars, policyVars, callerVars>>

\* a metadata index that keeps the entry a hash already has
mapSet_keepFirst(map, key, value) == map @@ (key :> value)

\* Map.prototype.set(key, value): insert, or replace the value of the key
mapSet(map, key, value) == (key :> value) @@ map

\* this.metadata.values() filtered by run_id, as a set of entries
listByRun(runId) ==
  {metadata[h] : h \in {k \in DOMAIN metadata : metadata[k].run_id = runId}}

\* this.metadata.set(hash, {...}); return handle
SetMetadata(c) ==
  /\ calls[c].pc = "meta"
  /\ LET handle == artifactHandle(calls[c].hash)
     IN /\ metadata' = mapSet(metadata, calls[c].hash,
                          [handle |-> handle, size |-> Len(calls[c].data),
                           mime |-> calls[c].mime, created_at |-> now,
                           run_id |-> calls[c].runId])
        /\ calls' = [calls EXCEPT
                       ![c].pc = "done",
                       ![c].result = [ok |-> TRUE, error |-> "",
                                      handle |-> handle]]
        /\ storeLog' = Append(storeLog,
                         [data |-> calls[c].data, mime |-> calls[c].mime,
                          runId |-> calls[c].runId, ok |-> TRUE,
                          handle |-> handle])
        /\ live' = mapSet(live, calls[c].hash, calls[c].data)
  /\ UNCHANGED <<storeCall, backendKind, memStore, files, inodes,
               runVars, policyVars, callerVars>>

Quiet == \A c \in Slots : ~InFlight(c)

InitStore ==
  /\ InitRun
  /\ input = NoInput
  /\ profile = Null
  /\ evaluation = Null
  /\ backendKind \in {"memory", "fs"}
  /\ EmptyStore

\* store() calls issued one after the other: each is awaited before the next
BeginStoreSeq(c, data, mime, runId) ==
  Quiet /\ BeginStore(c, data, mime, runId)

NextStore ==
  \/ \E c \in Slots, data \in Blobs, mime \in Mimes, runId \in RunIds :
       BeginStoreSeq(c, data, mime, runId)
  \/ \E c \in Slots : Hashed(c)
  \/ \E c \in Slots : HasChecked(c)
  \/ \E c \in Slots : MemoryPut(c)
  \/ \E c \in Slots : FsMkdir(c)
  \/ \E c \in Slots : FsOpen(c)
  \/ \E c \in Slots : FsWrite(c)
  \/ \E c \in Slots : FsRename(c)
  \/ \E c \in Slots : SetMetadata(c)

SpecStore == InitStore /\ [][NextStore]_vars

\* store() calls issued concurrently: a call may start while another is
\* suspended at an await
NextStoreConc ==
  \/ \E c \in Slots, data \in Blobs, mime \in Mimes, runId \in RunIds :
       BeginStore(c, data, mime, runId)
  \/ \E c \in Slots : Hashed(c)
  \/ \E c \in Slots : HasChecked(c)
  \/ \E c \in Slots : MemoryPut(c)
  \/ \E c \in Slots : FsMkdir(c)
  \/ \E c \in Slots : FsOpen(c)
  \/ \E c \in Slots : FsWrite(c)
  \/ \E c \in Slots : FsRename(c)
  \/ \E c \in Slots : SetMetadata(c)

SpecStoreConc == InitStore /\ [][NextStoreConc]_vars

\* ------------------------------------------------------------------------
\* kernel-artifact: retrieve, getMetadata, has and delete
\* ------------------------------------------------------------------------
\* extractHash(handle): null for a foreign scheme, the second segment of
\* "sha256/<hex>", otherwise the whole path as the hash (a path of one
\* segment is that segment)
extractHash(handle) ==
  IF handle.scheme # ARTIFACT_SCHEME THEN Null
  ELSE IF Len(handle.path) = 2 /\ handle.path[1] = "sha256"
         THEN Some(handle.path[2])
  ELSE Some(handle.path[1])

\* a Map.delete that removes nothing
mapDelete_none(map, key) == map

\* a Map.delete that empties the map
mapDelete_all(map, key) == <<>>

\* Map.prototype.delete(key) and unlink(path): the entry of the key goes
mapDelete(map, key) == [k \in DOMAIN map \ {key} |-> map[k]]

\* backend.get(hash): Map.get(hash) ?? null, or readFile(target) with every
\* error caught and turned into null
backendGet(hash) ==
  IF backendKind = "memory"
    THEN IF hash \in DOMAIN memStore THEN Some(memStore[hash]) ELSE Null
  ELSE IF TargetPath(hash) \in DOMAIN files
         THEN Some(inodes[files[TargetPath(hash)]])
  ELSE Null

\* the call in flight, or the last one that returned
StoreCall(op, handle, pc, ret) ==
  [op |-> op, handle |-> handle, hash |-> extractHash(handle), pc |-> pc,
   existed |-> /\ extractHash(handle) # Null
               /\ backendHas(extractHash(handle).value),
   ret |-> ret]

\* no store() call and no delete() call is suspended at an await
Settled ==
  /\ Quiet
  /\ storeCall # Null => storeCall.pc = "done"

\* retrieve(handle): null for a handle without a hash, else backend.get
retrieve(handle) ==
  /\ storeCall' = StoreCall("retrieve", handle, "done",
                    IF extractHash(handle) = Null THEN Null
                    ELSE backendGet(extractHash(handle).value))
  /\ UNCHANGED <<live, backendKind, memStore, files, inodes, metadata, calls,
                 storeLog, runVars, policyVars, callerVars>>

\* getMetadata(handle): this.metadata.get(hash) ?? null
getMetadata(handle) ==
  /\ storeCall' = StoreCall("getMetadata", handle, "done",
                    IF extractHash(handle) = Null THEN Null
                    ELSE IF extractHash(handle).value \in DOMAIN metadata
                           THEN metadata[extractHash(handle).value]
                    ELSE Null)
  /\ UNCHANGED <<live, backendKind, memStore, files, inodes, metadata, calls,
                 storeLog, runVars, policyVars, callerVars>>

\* has(handle) of the store: false without a hash, else backend.has
storeHas(handle) ==
  /\ storeCall' = StoreCall("has", handle, "done",
                    /\ extractHash(handle) # Null
                    /\ backendHas(extractHash(handle).value))
  /\ UNCHANGED <<live, backendKind, memStore, files, inodes, metadata, calls,
                 storeLog, runVars, policyVars, callerVars>>

\* delete(handle) up to its await: false without a hash, else
\* this.metadata.delete(hash) and the call of backend.delete(hash).  The
\* body of MemoryBackend.delete has no await: Map.delete runs within the
\* call; FilesystemBackend.delete unlinks later.
delete(handle) ==
  /\ IF extractHash(handle) = Null
       THEN /\ storeCall' = StoreCall("delete", handle, "done", FALSE)
            /\ UNCHANGED <<metadata, live, memStore>>
       ELSE /\ metadata' = mapDelete(metadata, extractHash(handle).value)
            /\ live' = [h \in DOMAIN live \ {extractHash(handle).value} |->
                           live[h]]
            /\ IF backendKind = "memory"
                 THEN /\ storeCall' =
                           StoreCall("delete", handle, "done",
                                     backendHas(extractHash(handle).value))
                      /\ memStore' =
                           mapDelete(memStore, extractHash(handle).value)
                 ELSE /\ storeCall' =
                           StoreCall("delete", handle, "backend", FALSE)
                      /\ UNCHANGED memStore
  /\ UNCHANGED <<backendKind, files, inodes, calls, storeLog,
                 runVars, policyVars, callerVars>>

\* FilesystemBackend.delete(hash) runs: unlink(target) with every error
\* caught and turned into false
BackendDelete ==
  /\ storeCall # Null
  /\ storeCall.pc = "backend"
  /\ storeCall' = [storeCall EXCEPT !.pc = "done",
                                    !.ret = backendHas(storeCall.hash.value)]
  /\ files' = mapDelete(files, TargetPath(storeCall.hash.value))
  /\ UNCHANGED <<live, backendKind, memStore, inodes, metadata, calls,
                 storeLog, runVars, policyVars, callerVars>>

\* the contents the callers of this specification store, and one they never do
ArtifactBlobs == {<<1>>, <<2>>}
NeverStored == <<1, 2>>

\* the handles asked for: those store() returns, the handle of content never
\* stored, a single-segment handle and a handle of another scheme
QueryHandles ==
  {artifactHandle(sha256(b)) : b \in ArtifactBlobs \cup {NeverStored}}
    \cup {[scheme |-> ARTIFACT_SCHEME, path |-> <<sha256(<<1>>)>>],
          [scheme |-> "file://", path |-> <<"sha256", sha256(<<1>>)>>]}

\* every call is awaited before the next one is made
NextArtifact ==
  \/ \E data \in ArtifactBlobs, runId \in RunIds :
       Settled /\ BeginStore("c1", data, "text/plain", runId)
  \/ Hashed("c1")
  \/ HasChecked("c1")
  \/ MemoryPut("c1")
  \/ FsMkdir("c1")
  \/ FsOpen("c1")
  \/ FsWrite("c1")
  \/ FsRename("c1")
  \/ SetMetadata("c1")
  \/ \E handle \in QueryHandles : Settled /\ retrieve(handle)
  \/ \E handle \in QueryHandles : Settled /\ getMetadata(handle)
  \/ \E handle \in QueryHandles : Settled /\ storeHas(handle)
  \/ \E handle \in QueryHandles : Settled /\ delete(handle)
  \/ BackendDelete

SpecArtifact == InitStore /\ [][NextArtifact]_vars

\* no delete() call is suspended at its await
NoDeletePending == storeCall # Null => storeCall.pc = "done"

\* the handles store() calls have returned to the caller
ReturnedHandles ==
  {storeLog[i].handle : i \in {j \in DOMAIN storeLog : storeLog[j].ok}}

\* store() and delete() calls issued concurrently: a call may start while
\* others are suspended at an await; delete is called with a handle that a
\* store() call has returned
NextArtifactConc ==
  \/ \E c \in Slots, data \in ArtifactBlobs :
       BeginStore(c, data, "text/plain", "r1")
  \/ \E c \in Slots : Hashed(c)
  \/ \E c \in Slots : HasChecked(c)
  \/ \E c \in Slots : MemoryPut(c)
  \/ \E c \in Slots : FsMkdir(c)
  \/ \E c \in Slots : FsOpen(c)
  \/ \E c \in Slots : FsWrite(c)
  \/ \E c \in Slots : FsRename(c)
  \/ \E c \in Slots : SetMetadata(c)
  \/ \E handle \in ReturnedHandles : NoDeletePending /\ delete(handle)
  \/ BackendDelete

SpecArtifactConc == InitStore /\ [][NextArtifactConc]_vars

\* ------------------------------------------------------------------------
\* The run manager as a state machine
\* ------------------------------------------------------------------------
\* time passes between calls
Tick ==
  /\ clock < MaxClock
  /\ clock' = clock + 1
  /\ UNCHANGED <<runs, last, appendLog, policyVars, storeVars, callerVars>>

Init ==
  /\ InitRun
  /\ InitArtifacts
  /\ input = NoInput
  /\ profile = Null
  /\ evaluation = Null

Next ==
  \/ \E id \in RunIds : create(id)
  \/ \E id \in RunIds : start(id)
  \/ \E id \in RunIds : \E et \in AppendTypes : append(id, et)
  \/ \E id \in RunIds : complete(id)
  \/ \E id \in RunIds : \E e \in Errors : fail(id, e)
  \/ \E id \in RunIds : cancel(id)
  \/ Tick

Spec == Init /\ [][Next]_vars

\* ------------------------------------------------------------------------
\* The run manager with listeners registered and unregistered between calls
\* ------------------------------------------------------------------------
ListenRunIds == {"r1"}
ListenTypes == {"tool.called"}
ListenError == [code |-> "E_TOOL", recoverable |-> FALSE]

NextListen ==
  \/ \E cb \in Callbacks : on(cb)
  \/ \E k \in 1..MaxSubs : unsubscribe(k)
  \/ \E id \in ListenRunIds : create(id)
  \/ \E id \in ListenRunIds : start(id)
  \/ \E id \in ListenRunIds : \E et \in ListenTypes : append(id, et)
  \/ \E id \in ListenRunIds : complete(id)
  \/ \E id \in ListenRunIds : fail(id, ListenError)
  \/ \E id \in ListenRunIds : cancel(id)

SpecListen == Init /\ [][NextListen]_vars

\* ------------------------------------------------------------------------
\* The run manager with its queries and a caller that keeps and edits the
\* array events() returned
\* ------------------------------------------------------------------------
QueryRunIds == {"r1"}
QueryTypes == {"tool.called"}

NextQuery ==
  \/ \E id \in QueryRunIds : create(id)
  \/ \E id \in QueryRunIds : start(id)
  \/ \E id \in QueryRunIds : \E et \in QueryTypes : append(id, et)
  \/ \E id \in QueryRunIds : complete(id)
  \/ \E id \in QueryRunIds : fail(id, ListenError)
  \/ \E id \in QueryRunIds : cancel(id)
  \/ \E id \in QueryRunIds : get(id)
  \/ \E id \in QueryRunIds : currentStep(id)
  \/ \E id \in QueryRunIds : events(id)
  \/ \E id \in QueryRunIds : isOverBudget(id)
  \/ \E edit \in ArrayEdits : modifyHeld(edit)
  \/ Tick

SpecQuery == Init /\ [][NextQuery]_vars

\* ------------------------------------------------------------------------
\* kernel-run: the default instance and the free functions kept for the
\* stub API.  runs and listeners are those of the default RunManager; they
\* are empty while _default is null, as they are in the manager that
\* getDefaultRunManager() then constructs.
\* ------------------------------------------------------------------------
\* resetDefaultRunManager(): _default = null.  The run states the caller got
\* from the dropped manager stay as they are.
resetDefaultRunManager ==
  /\ DOMAIN runs # {}
  /\ kept' = runs
  /\ runs' = <<>>
  /\ appendLog' = <<>>
  /\ listeners' = <<>>
  /\ last' = Returned("resetDefaultRunManager", "", Null)
  /\ NoEmit
  /\ UNCHANGED <<loop, clock, subs, held, budgetCheck, toolCall, policyVars,
                 storeVars>>

\* createRun(envelope): mgr.create(envelope); return { runId }
createRun(runId) ==
  /\ IF has(runId)
       THEN /\ last' = Threw("createRun", runId, AlreadyExists(runId))
            /\ UNCHANGED <<runs, appendLog>>
       ELSE LET state == [envelope |-> Envelope(runId), status |-> "pending",
                          step |-> 0, events |-> <<>>, started_at |-> Null,
                          finished_at |-> Null, error |-> Null,
                          tool_calls |-> 0, artifacts_created |-> 0,
                          errors |-> 0]
            IN /\ runs' = runs @@ (runId :> state)
               /\ appendLog' = appendLog @@ (runId :> <<>>)
               /\ last' = Returned("createRun", runId, [runId |-> runId])
  /\ NoEmit
  /\ UNCHANGED <<loop, kept, clock, listeners, subs, held, budgetCheck,
                 toolCall, policyVars, storeVars>>

\* appendEvent(runId, event): mgr.append(runId, event.event)
appendEvent(runId, event) == append(runId, event.event)

\* finaliseRun(runId): return mgr.complete(runId)
finaliseRun(runId) == complete(runId)

\* AgentEvent values handed to appendEvent(): the field it reads
CompatEvents == [event : AppendTypes]

\* a caller that uses the free functions only
NextCompat ==
  \/ \E id \in RunIds : createRun(id)
  \/ \E id \in RunIds : \E e \in CompatEvents : appendEvent(id, e)
  \/ \E id \in RunIds : finaliseRun(id)
  \/ resetDefaultRunManager
  \/ Tick

SpecCompat == Init /\ [][NextCompat]_vars

\* ------------------------------------------------------------------------
\* A caller that runs a run on the default manager, drops the manager,
\* and runs another on the next one, keeping the run states of the first
\* ------------------------------------------------------------------------
ReplayRunIds == {"r1"}
ReplayTypes == {"tool.called", "run.failed"}

NextReplay ==
  \/ \E id \in ReplayRunIds : create(id)
  \/ \E id \in ReplayRunIds : start(id)
  \/ \E id \in ReplayRunIds : \E et \in ReplayTypes : append(id, et)
  \/ \E id \in ReplayRunIds : complete(id)
  \/ \E id \in ReplayRunIds : fail(id, ListenError)
  \/ \E id \in ReplayRunIds : cancel(id)
  \/ resetDefaultRunManager

SpecReplay == Init /\ [][NextReplay]_vars

\* ------------------------------------------------------------------------
\* kernel-policy: matchesScope called on its own
\* ------------------------------------------------------------------------
PatternChars == {"a", "/", "*", "?", "."}
ScopeChars == {"a", "A", "/", ".", "\n"}

GlobPatterns == SeqsUpTo(PatternChars, MaxPattern)
GlobScopes == SeqsUpTo(ScopeChars, MaxScope)

\* the caller calls matchesScope(pattern, scope)
MatchesScope(pattern, scope) ==
  /\ fnCall' = [fn |-> "matchesScope", pattern |-> pattern, scope |-> scope,
                result |-> matchesScope(pattern, scope)]
  /\ UNCHANGED <<input, profile, evaluation, runVars, storeVars,
                 callerVars>>

\* one call of matchesScope() per behaviour
NextScope ==
  /\ fnCall = Null
  /\ \E pattern \in GlobPatterns : \E scope \in GlobScopes :
       MatchesScope(pattern, scope)

SpecScope == Init /\ [][NextScope]_vars

\* ------------------------------------------------------------------------
\* kernel-state: buildControlState over the manager's list()
\* ------------------------------------------------------------------------
RECURSIVE SeqOf(_)
SeqOf(S) ==
  IF S = {} THEN <<>>
  ELSE LET x == CHOOSE y \in S : TRUE IN <<x>> \o SeqOf(S \ {x})

\* list(): Array.from(this.runs.values()).  The Map's insertion order is not
\* kept in the model: the states are listed in one fixed order of the ids.
runList ==
  [i \in 1..Cardinality(DOMAIN runs) |-> runs[SeqOf(DOMAIN runs)[i]]]

\* arr.filter(pred).length for a predicate that tests r.status
filterLength(rs, statuses) ==
  Cardinality({i \in DOMAIN rs : rs[i].status \in statuses})

\* the StateInput of a caller that passes the runs and no option
StateInput(rs, artifactCount, policyViolations) ==
  [runs |-> rs, artifactCount |-> artifactCount,
   policyViolations |-> policyViolations, controllerMode |-> Null,
   lastAuditAt |-> Null, lastEntropyReviewAt |-> Null]

\* a snapshot that counts failed runs as active
buildControlState_failedActive(in) ==
  [version |-> 1,
   controller_mode |-> IF in.controllerMode = Null THEN "autonomous"
                       ELSE in.controllerMode,
   last_audit_at |-> in.lastAuditAt,
   last_entropy_review_at |-> in.lastEntropyReviewAt,
   active_runs |-> filterLength(in.runs, {"pending", "running", "failed"}),
   completed_runs |-> filterLength(in.runs, {"completed", "cancelled"}),
   artifact_count |-> in.artifactCount,
   policy_violations |-> in.policyViolations]

buildControlState(in) ==
  [version |-> 1,
   controller_mode |-> IF in.controllerMode = Null THEN "autonomous"
                       ELSE in.controllerMode,
   last_audit_at |-> in.lastAuditAt,
   last_entropy_review_at |-> in.lastEntropyReviewAt,
   active_runs |-> filterLength(in.runs, {"pending", "running"}),
   completed_runs |->
     filterLength(in.runs, {"completed", "failed", "cancelled"}),
   artifact_count |-> in.artifactCount,
   policy_violations |-> in.policyViolations]

\* lists of run states made up by a caller, each state given by the field
\* the snapshot reads
RunStateLists == SeqsUpTo([status : RUN_STATUSES], MaxList)

\* the caller calls buildControlState({ runs, artifactCount: 0,
\* policyViolations: 0 })
BuildControlState(rs) ==
  /\ fnCall' = [fn |-> "buildControlState", runs |-> rs,
                result |-> buildControlState(StateInput(rs, 0, 0))]
  /\ UNCHANGED <<input, profile, evaluation, runVars, storeVars,
                 callerVars>>

ControlRunIds == {"r1", "r2"}

\* the manager is used until a snapshot is taken: of the manager's list(),
\* or, by a caller that has no manager, of a list of made-up run states
NextControl ==
  \/ fnCall = Null /\ \E id \in ControlRunIds : create(id)
  \/ fnCall = Null /\ \E id \in ControlRunIds : start(id)
  \/ fnCall = Null /\ \E id \in ControlRunIds : append(id, "tool.called")
  \/ fnCall = Null /\ \E id \in ControlRunIds : complete(id)
  \/ fnCall = Null /\ \E id \in ControlRunIds : fail(id, ListenError)
  \/ fnCall = Null /\ \E id \in ControlRunIds : cancel(id)
  \/ fnCall = Null /\ BuildControlState(runList)
  \/ fnCall = Null /\ runs = <<>>
       /\ \E rs \in RunStateLists : BuildControlState(rs)

SpecControl == Init /\ [][NextControl]_vars

\* ------------------------------------------------------------------------
\* kernel-integration: KernelHarness, one RunManager, one ArtifactStore and
\* the profile it was constructed with
\* ------------------------------------------------------------------------
BYTES_PER_MB == 1048576

RECURSIVE SumSizes(_)
\* reduce((sum, m) => sum + m.size, 0) over metadata entries
SumSizes(entries) ==
  IF entries = {} THEN 0
  ELSE LET m == CHOOSE e \in entries : TRUE
       IN m.size + SumSizes(entries \ {m})

\* the bytes of the artifacts the metadata index attributes to the run
artifactBytes(runId) == SumSizes(listByRun(runId))

\* artifactBytes / (1024 * 1024) is a fraction in the code; it is kept
\* rounded up to whole MB, which compares with a whole-number ceiling as
\* the fraction does: bytes / 2^20 > m iff the rounded-up figure > m
artifactsMb(runId) ==
  (artifactBytes(runId) + BYTES_PER_MB - 1) \div BYTES_PER_MB

\* a usage that reports no tool call, as it reports no token
harnessUsage_noCalls(run) ==
  [elapsed_ms |-> IF run.started_at # Null THEN now - run.started_at.t ELSE 0,
   tokens_used |-> 0,
   tool_calls |-> 0,
   artifacts_mb |-> artifactsMb(run.envelope.run_id)]

\* the BudgetUsage checkBudget(runId) builds: time since started_at, no
\* tokens, the run's tool_calls counter, and the sizes of the run's
\* artifacts in MB
harnessUsage(run) ==
  [elapsed_ms |-> IF run.started_at # Null THEN now - run.started_at.t ELSE 0,
   tokens_used |-> 0,
   tool_calls |-> run.tool_calls,
   artifacts_mb |-> artifactsMb(run.envelope.run_id)]

\* createRun(params) of the harness: the envelope takes params.budgets, or
\* the profile's budgets when there are none; create() and start() follow
harnessCreateRun(runId, budgets) ==
  /\ profile # Null
  /\ IF has(runId)
       THEN /\ last' = Threw("harness.createRun", runId, AlreadyExists(runId))
            /\ NoEmit
            /\ UNCHANGED <<runs, appendLog>>
       ELSE LET envelope == [Envelope(runId) EXCEPT
                               !.budgets = IF budgets # Null THEN budgets
                                           ELSE profile.budgets]
                state == [envelope |-> envelope,
                          status |-> "pending",
                          step |-> 0,
                          events |-> <<>>,
                          started_at |-> Null,
                          finished_at |-> Null,
                          error |-> Null,
                          tool_calls |-> 0,
                          artifacts_created |-> 0,
                          errors |-> 0]
                r1 == transition(state, "running")
                r2 == [r1 EXCEPT !.started_at = Stamp(now)]
                r3 == recordEvent(r2, "run.started")
            IN /\ CanRecord
               /\ runs' = runs @@ (runId :> r3)
               /\ appendLog' = appendLog @@ (runId :> <<>>)
               /\ Emit(lastEvent(r3))
               /\ last' = IF emitThrows(listeners)
                            THEN Threw("harness.createRun", runId,
                                       ListenerThrew(notified'[Len(notified')]))
                            ELSE Returned("harness.createRun", runId, r3)
  /\ UNCHANGED <<loop, kept, clock, listeners, subs, held, budgetCheck,
                 toolCall, policyVars, storeVars>>

recordToolCall(runId) == append(runId, "tool.called")

completeRun(runId) == complete(runId)

failRun(runId, error) == fail(runId, error)

\* a checkBudget(runId) that fails the run it finds over budget
harnessCheckBudget_failing(runId) ==
  /\ IF ~has(runId)
       THEN /\ last' = Threw("harness.checkBudget", runId, NotFound(runId))
            /\ UNCHANGED runs
       ELSE LET result == checkBudget(runs[runId].envelope.budgets,
                                      harnessUsage(runs[runId]))
            IN /\ last' = Returned("harness.checkBudget", runId, result)
               /\ runs' = IF result.within_budget THEN runs
                          ELSE [runs EXCEPT
                                  ![runId] = transition(@, "failed")]
  /\ NoEmit
  /\ UNCHANGED <<loop, kept,
                 clock, appendLog, listeners, subs, held, budgetCheck,
                 toolCall, policyVars, storeVars>>

\* checkBudget(runId) of the harness: throws for an unknown run, else
\* checkBudget(run.envelope.budgets, usage)
harnessCheckBudget(runId) ==
  /\ last' =
       IF ~has(runId)
         THEN Threw("harness.checkBudget", runId, NotFound(runId))
       ELSE Returned("harness.checkBudget", runId,
                     checkBudget(runs[runId].envelope.budgets,
                                 harnessUsage(runs[runId])))
  /\ NoEmit
  /\ UNCHANGED <<loop, kept, runs, clock, appendLog, listeners, subs, held,
                 budgetCheck, toolCall, policyVars, storeVars>>

\* the profile the harness is constructed with
HarnessProfile ==
  [name |-> "test_ci_safe",
   rules |-> <<[action |-> "git.push", scope |-> <<"*">>,
                decision |-> "DENY", reason |-> Null, condition |-> Null]>>,
   budgets |-> [max_time_ms |-> MaxClock, max_tokens |-> 0,
                max_tool_calls |-> Some(0), max_artifacts_mb |-> Some(0)]]

\* the budgets a caller passes to createRun (Null: none, the profile's)
HarnessBudgets ==
  {Null, [max_time_ms |-> 0, max_tokens |-> 0,
          max_tool_calls |-> Some(MaxUsage - 1), max_artifacts_mb |-> Null]}

InitHarness ==
  /\ InitRun
  /\ InitArtifacts
  /\ input = NoInput
  /\ profile = HarnessProfile
  /\ evaluation = Null

\* the caller has not called the policy engine directly yet
NoPolicyCall == budgetCheck = Null /\ evaluation = Null

\* the harness is driven through its methods; its run manager is public,
\* so the caller may cancel a run or ask isOverBudget, and may once hand a
\* run's budgets and usage, or an action, to the policy engine itself
NextHarness ==
  \/ \E id \in RunIds, budgets \in HarnessBudgets :
       harnessCreateRun(id, budgets)
  \/ \E id \in RunIds : recordToolCall(id)
  \/ \E id \in RunIds : completeRun(id)
  \/ \E id \in RunIds : failRun(id, ListenError)
  \/ \E id \in RunIds : cancel(id)
  \/ \E id \in RunIds : harnessCheckBudget(id)
  \/ \E id \in RunIds : isOverBudget(id)
  \/ \E id \in DOMAIN runs :
       /\ NoPolicyCall
       /\ CheckBudget(runs[id].envelope.budgets, harnessUsage(runs[id]))
  \/ NoPolicyCall /\ Evaluate("git.push", <<"a">>)
  \/ Tick

SpecHarness == InitHarness /\ [][NextHarness]_vars

\* ------------------------------------------------------------------------
\* AgentLoop: tick() is an async generator over a private RunManager; its
\* consumer resumes it one yield at a time
\* ------------------------------------------------------------------------
\* what a consumer of tick() does with the states it is handed: "drain"
\* iterates until the generator is done, "handler" is the chat-bot's SSE
\* loop, which leaves its for-await at phase "complete" or "error"
Consumers == {"drain", "handler"}

\* the error tick() hands to fail() from its catch block
AGENT_LOOP_ERROR == [code |-> "AGENT_LOOP_ERROR", recoverable |-> TRUE]

LoopFrame ==
  UNCHANGED <<clock, listeners, subs, held, budgetCheck, toolCall, kept,
              policyVars, storeVars>>

\* tick(userMessage, interfaceType): calling an async generator function
\* only makes the generator; nothing of its body has run (ticks are bounded
\* by the run ids left for createRunEnvelope to draw)
tick(consumer) ==
  /\ loop.pc = "idle"
  /\ \E id \in RunIds : ~has(id)
  /\ loop' = [loop EXCEPT !.pc = "created", !.consumer = consumer,
                          !.run_id = "", !.phase = "idle"]
  /\ UNCHANGED <<runs, last, appendLog, received, notified>>
  /\ LoopFrame

\* first next(): the body up to the first yield creates and starts a run
\* under a fresh id and remembers it as the active run
tickConnecting(runId) ==
  /\ loop.pc = "created"
  /\ ~has(runId)
  /\ LET state == [envelope |-> Envelope(runId),
                   status |-> "pending",
                   step |-> 0,
                   events |-> <<>>,
                   started_at |-> Null,
                   finished_at |-> Null,
                   error |-> Null,
                   tool_calls |-> 0,
                   artifacts_created |-> 0,
                   errors |-> 0]
         r1 == transition(state, "running")
         r2 == [r1 EXCEPT !.started_at = Stamp(now)]
         r3 == recordEvent(r2, "run.started")
     IN /\ runs' = runs @@ (runId :> r3)
        /\ appendLog' = appendLog @@ (runId :> <<>>)
        /\ Emit(lastEvent(r3))
        /\ last' = Returned("start", runId, r3)
  /\ loop' = [loop EXCEPT !.activeRunId = Some(runId), !.run_id = runId,
                          !.pc = "connecting", !.phase = "connecting"]
  /\ LoopFrame

\* second next(): the system prompt is built and "streaming" is yielded
tickStreaming ==
  /\ loop.pc = "connecting"
  /\ loop' = [loop EXCEPT !.pc = "streaming", !.phase = "streaming"]
  /\ UNCHANGED <<runs, last, appendLog, received, notified>>
  /\ LoopFrame

\* third next(): generateText() resolves and "complete" is yielded, or it
\* rejects and the catch block yields "error"; the run is still running
tickGenerate(ok) ==
  /\ loop.pc = "streaming"
  /\ loop' = [loop EXCEPT !.pc = IF ok THEN "complete" ELSE "error",
                          !.phase = IF ok THEN "complete" ELSE "error"]
  /\ UNCHANGED <<runs, last, appendLog, received, notified>>
  /\ LoopFrame

\* a consumer that asks for the state after "complete": the generator
\* completes the run, clears the active run and is done
tickFinishComplete ==
  /\ loop.pc = "complete"
  /\ loop.consumer = "drain"
  /\ LET r1 == transition(runs[loop.run_id], "completed")
         r2 == [r1 EXCEPT !.finished_at = Stamp(now)]
         r3 == recordEvent(r2, "run.completed")
     IN /\ runs' = [runs EXCEPT ![loop.run_id] = r3]
        /\ Emit(lastEvent(r3))
        /\ last' = Returned("complete", loop.run_id, buildSummary(r3))
  /\ loop' = [loop EXCEPT !.activeRunId = Null, !.pc = "idle"]
  /\ UNCHANGED appendLog
  /\ LoopFrame

\* a consumer that asks for the state after "error": the generator fails
\* the run, clears the active run and is done
tickFinishError ==
  /\ loop.pc = "error"
  /\ loop.consumer = "drain"
  /\ LET r1 == transition(runs[loop.run_id], "failed")
         r2 == [r1 EXCEPT !.finished_at = Stamp(now),
                          !.error = AGENT_LOOP_ERROR,
                          !.errors = @ + 1]
         r3 == recordEvent(r2, "run.failed")
     IN /\ runs' = [runs EXCEPT ![loop.run_id] = r3]
        /\ Emit(lastEvent(r3))
        /\ last' = Returned("fail", loop.run_id, buildSummary(r3))
  /\ loop' = [loop EXCEPT !.activeRunId = Null, !.pc = "idle"]
  /\ UNCHANGED appendLog
  /\ LoopFrame

\* the chat-bot handler: at phase "complete" or "error" it breaks out of
\* its for-await, which returns the generator where it is suspended: the
\* statements after that yield never run
handlerBreak ==
  /\ loop.pc \in {"complete", "error"}
  /\ loop.consumer = "handler"
  /\ loop' = [loop EXCEPT !.pc = "idle"]
  /\ UNCHANGED <<runs, last, appendLog, received, notified>>
  /\ LoopFrame

\* shutdown() between ticks: completes the active run if there is one and
\* swallows what complete() throws; activeRunId is left as it is
shutdown ==
  /\ loop.pc = "idle"
  /\ IF loop.activeRunId # Null
        /\ canTransition(runs[loop.activeRunId.value].status, "completed")
       THEN LET runId == loop.activeRunId.value
                r1 == transition(runs[runId], "completed")
                r2 == [r1 EXCEPT !.finished_at = Stamp(now)]
                r3 == recordEvent(r2, "run.completed")
            IN /\ runs' = [runs EXCEPT ![runId] = r3]
               /\ Emit(lastEvent(r3))
       ELSE /\ NoEmit
            /\ UNCHANGED runs
  /\ last' = Returned("shutdown", "", Null)
  /\ UNCHANGED <<loop, appendLog>>
  /\ LoopFrame

\* the steps the JavaScript runtime takes on its own once a consumer
\* iterates: each resumption of the generator and the handler's break
LoopStep ==
  \/ \E id \in RunIds : tickConnecting(id)
  \/ tickStreaming
  \/ \E ok \in BOOLEAN : tickGenerate(ok)
  \/ tickFinishComplete
  \/ tickFinishError
  \/ handlerBreak

NextLoop ==
  \/ \E consumer \in Consumers : tick(consumer)
  \/ \E id \in RunIds : tickConnecting(id)
  \/ tickStreaming
  \/ \E ok \in BOOLEAN : tickGenerate(ok)
  \/ tickFinishComplete
  \/ tickFinishError
  \/ handlerBreak
  \/ shutdown
  \/ Tick

SpecLoop == Init /\ [][NextLoop]_vars

\* a started consumer keeps iterating and generateText() settles; nothing
\* obliges anyone to call tick() again or to call shutdown()
SpecLoopFair == SpecLoop /\ WF_vars(LoopStep)

\* ------------------------------------------------------------------------
\* The run manager with listeners that call it back: a callback in
\* Reactive notes the event it is handed and, when the event is
\* run.started, calls append, complete, fail or cancel for the event's run
\* on the same manager, catching what the call throws
\* ------------------------------------------------------------------------
Reaction(cb) ==
  CASE cb = "onStartAppend" -> "append"
    [] cb = "onStartComplete" -> "complete"
    [] cb = "onStartFail" -> "fail"
    [] cb = "onStartCancel" -> "cancel"
    [] OTHER -> "none"

\* the manager call made from inside callback cb: what it does to the run,
\* to what the listeners ls have noted (its recordEvent() calls emit() for
\* all of them before it returns) and to the log of append() calls
react(w, ls, cb) ==
  LET to == CASE Reaction(cb) = "complete" -> "completed"
              [] Reaction(cb) = "fail" -> "failed"
              [] OTHER -> "cancelled"
      r1 == transition(w.run, to)
      r2 == IF Reaction(cb) = "fail"
              THEN [r1 EXCEPT !.finished_at = Stamp(now),
                              !.error = ListenError,
                              !.errors = @ + 1]
              ELSE [r1 EXCEPT !.finished_at = Stamp(now)]
      r3 == recordEvent(r2, IF Reaction(cb) = "complete" THEN "run.completed"
                            ELSE IF Reaction(cb) = "fail" THEN "run.failed"
                            ELSE "run.completed")
      a1 == recordEvent(w.run, "tool.called")
  IN IF Reaction(cb) = "append"
       THEN IF w.run.status # "running" THEN w
            ELSE [run |-> bumpCounters(a1, "tool.called"),
                  rcv |-> noteAll(w.rcv, ls, 1, lastEvent(a1)),
                  log |-> Append(w.log, "tool.called")]
       ELSE IF ~canTransition(w.run.status, to) THEN w
            ELSE [w EXCEPT !.run = r3,
                           !.rcv = noteAll(w.rcv, ls, 1, lastEvent(r3))]

\* emit(event, run) from listener i on, for a run.started event: each
\* callback notes the event, and a reactive one makes its call before the
\* for-of loop goes on to the next listener
RECURSIVE emitStarted(_, _, _, _)
emitStarted(w, ls, i, event) ==
  IF i > Len(ls) THEN w
  ELSE LET noted == [w EXCEPT !.rcv[ls[i]] = Append(@, event)]
       IN emitStarted(IF ls[i] \in Reactive THEN react(noted, ls, ls[i])
                      ELSE noted,
                      ls, i + 1, event)

\* start(runId) of a manager whose listeners may call it back
startReentrant(runId) ==
  /\ IF ~has(runId)
       THEN /\ last' = Threw("start", runId, NotFound(runId))
            /\ NoEmit
            /\ UNCHANGED <<runs, appendLog>>
       ELSE IF ~canTransition(runs[runId].status, "running")
       THEN /\ last' = Threw("start", runId,
                             InvalidTransition(runs[runId], "running"))
            /\ NoEmit
            /\ UNCHANGED <<runs, appendLog>>
       ELSE LET r1 == transition(runs[runId], "running")
                r2 == [r1 EXCEPT !.started_at = Stamp(now)]
                r3 == recordEvent(r2, "run.started")
                w == emitStarted([run |-> r3, rcv |-> received,
                                  log |-> appendLog[runId]],
                                 listeners, 1, lastEvent(r3))
            IN /\ runs' = [runs EXCEPT ![runId] = w.run]
               /\ SumSteps(runs', DOMAIN runs') <= MaxEvents
               /\ received' = w.rcv
               /\ appendLog' = [appendLog EXCEPT ![runId] = w.log]
               /\ notified' = listeners
               /\ last' = Returned("start", runId, lastEvent(r3))
  /\ UNCHANGED <<loop, kept, clock, listeners, subs, held, budgetCheck,
                 toolCall, policyVars, storeVars>>

NextReentrant ==
  \/ \E cb \in Reactive \cup {"l1"} : on(cb)
  \/ \E k \in 1..MaxSubs : unsubscribe(k)
  \/ \E id \in ListenRunIds : create(id)
  \/ \E id \in ListenRunIds : startReentrant(id)
  \/ \E id \in ListenRunIds : \E et \in ListenTypes : append(id, et)
  \/ \E id \in ListenRunIds : complete(id)
  \/ \E id \in ListenRunIds : fail(id, ListenError)
  \/ \E id \in ListenRunIds : cancel(id)

SpecReentrant == Init /\ [][NextReentrant]_vars

\* ------------------------------------------------------------------------
\* The harness storing artifacts: storeArtifact() goes to the harness's
\* own ArtifactStore over a MemoryBackend; the caller awaits each call
\* ------------------------------------------------------------------------
\* storeArtifact(data, mime, runId): storeString() encodes and calls store()
storeArtifact(data, mime, runId) ==
  BeginStoreSeq("c1", data, mime, runId)

NextHarnessStore ==
  \/ \E id \in RunIds : harnessCreateRun(id, Null)
  \/ \E data \in ArtifactBlobs, id \in DOMAIN runs :
       storeArtifact(data, "text/plain", id)
  \/ Hashed("c1")
  \/ MemoryPut("c1")
  \/ SetMetadata("c1")
  \/ \E id \in RunIds : harnessCheckBudget(id)
  \/ \E id \in RunIds : completeRun(id)
  \/ Tick

SpecHarnessStore == InitHarness /\ [][NextHarnessStore]_vars

\* ------------------------------------------------------------------------
\* The run manager with the clock read where the code reads it: cancel()
\* takes finished_at from now(), recordEvent() calls the listeners, and
\* buildSummary() then reads Date.now(); the clock may have advanced
\* ------------------------------------------------------------------------
cancelTimed(runId) ==
  /\ IF ~has(runId)
       THEN /\ last' = Threw("cancel", runId, NotFound(runId))
            /\ NoEmit
            /\ UNCHANGED <<runs, clock>>
       ELSE IF ~canTransition(runs[runId].status, "cancelled")
       THEN /\ last' = Threw("cancel", runId,
                             InvalidTransition(runs[runId], "cancelled"))
            /\ NoEmit
            /\ UNCHANGED <<runs, clock>>
       ELSE LET r1 == transition(runs[runId], "cancelled")
                r2 == [r1 EXCEPT !.finished_at = Stamp(now)]
                r3 == recordEvent(r2, "run.completed")
            IN /\ CanRecord
               /\ runs' = [runs EXCEPT ![runId] = r3]
               /\ Emit(lastEvent(r3))
               /\ \E dateNow \in clock..MaxClock :
                    /\ clock' = dateNow
                    /\ last' = Returned("cancel", runId,
                                        buildSummaryAt(r3, dateNow))
  /\ UNCHANGED <<loop, kept, appendLog, listeners, subs, held, budgetCheck,
                 toolCall, policyVars, storeVars>>

NextTimed ==
  \/ \E id \in RunIds : create(id)
  \/ \E id \in RunIds : start(id)
  \/ \E id \in RunIds : complete(id)
  \/ \E id \in RunIds : \E e \in Errors : fail(id, e)
  \/ \E id \in RunIds : cancelTimed(id)
  \/ Tick

SpecTimed == Init /\ [][NextTimed]_vars

\* ------------------------------------------------------------------------
\* Properties of the run manager (checked under Spec)
\* ------------------------------------------------------------------------
TERMINAL == {"completed", "failed", "cancelled"}

\* the step is a call of op on run id (Tick is the only step that is no call)
Called(op, id) == last'.op = op /\ last'.run_id = id /\ clock' = clock

OpTarget == [start |-> "running", complete |-> "completed",
             fail |-> "failed", cancel |-> "cancelled"]

TransitionTable ==
  {<<"pending", "running">>, <<"pending", "cancelled">>,
   <<"running", "completed">>, <<"running", "failed">>,
   <<"running", "cancelled">>}

Count(seq, x) == Cardinality({i \in DOMAIN seq : seq[i] = x})

\* C1: start/complete/fail/cancel on a run whose status is `from` succeeds
\* iff (from, target) is one of the five pairs of the transition table;
\* otherwise it throws an invalid-transition error naming the run, the
\* source and the target, and the status stays `from`.  canTransition is
\* exactly that relation.
C1_TransitionClosure ==
  [][\A id \in DOMAIN runs : \A op \in DOMAIN OpTarget :
       Called(op, id) =>
         LET from == runs[id].status
             to == OpTarget[op]
         IN /\ last'.ok <=> <<from, to>> \in TransitionTable
            /\ last'.ok => runs'[id].status = to
            /\ ~last'.ok =>
                 /\ last'.error = [kind |-> "invalid_transition",
                                   from |-> from, to |-> to, run_id |-> id]
                 /\ runs'[id].status = from
            /\ \A f, t \in RUN_STATUSES :
                 canTransition(f, t) <=> <<f, t>> \in TransitionTable]_vars

\* a complete() was refused on a pending run, which is still pending
C1_Witness ==
  /\ last.op = "complete" /\ ~last.ok
  /\ last.error.kind = "invalid_transition"
  /\ last.error.from = "pending"
  /\ runs[last.run_id].status = "pending"

\* C2: append fails on a run that is pending, completed, failed or
\* cancelled; on a running run it succeeds, adds exactly one event to the
\* log and raises the step counter by exactly 1.
C2_AppendOnlyWhileRunning ==
  [][\A id \in DOMAIN runs :
       Called("append", id) =>
         IF runs[id].status = "running"
           THEN /\ last'.ok
                /\ Len(runs'[id].events) = Len(runs[id].events) + 1
                /\ SubSeq(runs'[id].events, 1, Len(runs[id].events))
                     = runs[id].events
                /\ runs'[id].step = runs[id].step + 1
           ELSE /\ ~last'.ok
                /\ last'.error.kind = "cannot_append"
                /\ runs'[id] = runs[id]]_vars

\* an append on a running run was accepted as the run's second event
C2_Witness ==
  /\ last.op = "append" /\ last.ok
  /\ last.run_id \in DOMAIN runs
  /\ runs[last.run_id].status = "running"
  /\ runs[last.run_id].step = 2

\* C3: once a run is completed, failed or cancelled, every later start,
\* append, complete, fail or cancel on it fails and the run's state
\* (status, step, events, counters, finished_at, error) never changes.
C3_TerminalIsFinal ==
  [][\A id \in DOMAIN runs :
       runs[id].status \in TERMINAL =>
         /\ runs'[id] = runs[id]
         /\ \A op \in {"start", "append", "complete", "fail", "cancel"} :
              Called(op, id) => ~last'.ok]_vars

\* an append was refused on a completed run
C3_Witness ==
  /\ last.op = "append" /\ ~last.ok
  /\ last.run_id \in DOMAIN runs
  /\ runs[last.run_id].status = "completed"
  /\ Len(runs[last.run_id].events) = 3

\* C4: every run's step counter equals the length of its log and the i-th
\* event (from 0) carries step_id i, also for a run cancelled while pending.
C4_StepIds ==
  \A id \in DOMAIN runs :
    /\ runs[id].step = Len(runs[id].events)
    /\ \A i \in DOMAIN runs[id].events : runs[id].events[i].step_id = i - 1

\* one run was started and appended to; another was cancelled while pending
C4_Witness ==
  /\ \E id \in DOMAIN runs :
       /\ Len(runs[id].events) = 2
       /\ runs[id].events[2].step_id = 1
  /\ \E id \in DOMAIN runs :
       /\ runs[id].status = "cancelled"
       /\ runs[id].started_at = Null
       /\ Len(runs[id].events) = 1

IsSummaryOf(id) ==
  /\ last.ok /\ last.op \in {"complete", "fail", "cancel"}
  /\ last.run_id = id

\* C10 as stated: the summary's tool_calls, artifacts_created and errors
\* equal the numbers of tool.called, artifact.created and run.failed events
\* appended before the terminal transition.
C10_SummaryCountsAppended ==
  \A id \in DOMAIN runs :
    IsSummaryOf(id) =>
      /\ last.ret.tool_calls = Count(appendLog[id], "tool.called")
      /\ last.ret.artifacts_created = Count(appendLog[id], "artifact.created")
      /\ last.ret.errors = Count(appendLog[id], "run.failed")

\* C10 amended: tool_calls and artifacts_created are the appended counts;
\* errors is the number of appended run.failed events, plus one when the
\* run was ended by fail.
C10_SummaryCounts ==
  \A id \in DOMAIN runs :
    IsSummaryOf(id) =>
      /\ last.ret.tool_calls = Count(appendLog[id], "tool.called")
      /\ last.ret.artifacts_created = Count(appendLog[id], "artifact.created")
      /\ last.ret.errors = Count(appendLog[id], "run.failed")
                             + (IF last.op = "fail" THEN 1 ELSE 0)

\* a run that had one artifact.created appended was completed
C10_Witness ==
  /\ last.ok /\ last.op = "complete"
  /\ appendLog[last.run_id] = <<"artifact.created">>
  /\ last.ret.artifacts_created = 1

\* ------------------------------------------------------------------------
\* Properties of the policy engine (checked under SpecPolicy)
\* ------------------------------------------------------------------------
Evaluated == evaluation # Null

\* the indices of the profile's rules that match the evaluated query
MatchingIndices ==
  {i \in DOMAIN profile.rules :
     /\ profile.rules[i].action = evaluation.action
     /\ matchesScope(profile.rules[i].scope, evaluation.scope)}

Rank(decision) ==
  CASE decision = "DENY" -> 1
    [] decision = "REQUIRE_APPROVAL" -> 2
    [] decision = "ALLOW" -> 3

EntryMatches(list) ==
  \E i \in DOMAIN list :
    /\ list[i].action = evaluation.action
    /\ matchesScope(list[i].scope, evaluation.scope)

EntriesOf(decision) ==
  LET sel == SelectSeq(profile.rules, LAMBDA r : r.decision = decision)
  IN [i \in DOMAIN sel |-> [action |-> sel[i].action, scope |-> sel[i].scope]]

Stripped(list) ==
  [i \in DOMAIN list |-> [action |-> list[i].action, scope |-> list[i].scope]]

\* C6: a profile made by buildProfile lists the denied entries, then the
\* approval_required entries, then the allowed entries; evaluate on it
\* returns DENY if a denied entry matches, otherwise REQUIRE_APPROVAL if an
\* approval_required entry matches, otherwise ALLOW if an allowed entry
\* matches, otherwise DENY.
C6_BuildProfilePrecedence ==
  (input.kind = "config" /\ profile # Null) =>
    /\ \A i, j \in DOMAIN profile.rules :
         i < j => Rank(profile.rules[i].decision)
                    <= Rank(profile.rules[j].decision)
    /\ EntriesOf("DENY") = Stripped(input.config.denied)
    /\ EntriesOf("REQUIRE_APPROVAL") = Stripped(input.config.approval_required)
    /\ EntriesOf("ALLOW") = Stripped(input.config.allowed)
    /\ Evaluated =>
         evaluation.result.decision =
           IF EntryMatches(input.config.denied) THEN "DENY"
           ELSE IF EntryMatches(input.config.approval_required)
             THEN "REQUIRE_APPROVAL"
           ELSE IF EntryMatches(input.config.allowed) THEN "ALLOW"
           ELSE "DENY"

\* a denied, an approval_required and an allowed entry all match the query
\* and the decision is DENY
C6_Witness ==
  /\ input.kind = "config" /\ profile # Null /\ Evaluated
  /\ EntryMatches(input.config.denied)
  /\ EntryMatches(input.config.approval_required)
  /\ EntryMatches(input.config.allowed)
  /\ evaluation.result.decision = "DENY"

Min(S) == CHOOSE m \in S : \A x \in S : m <= x

\* C7: findMatchingRule returns the matching rule of smallest index, or
\* null when none matches, and evaluate's decision is that rule's decision.
C7_FirstMatchWins ==
  Evaluated =>
    /\ findMatchingRule(profile.rules, evaluation.action, evaluation.scope)
         = IF MatchingIndices = {} THEN Null
           ELSE profile.rules[Min(MatchingIndices)]
    /\ MatchingIndices # {} =>
         /\ evaluation.result.rule = profile.rules[Min(MatchingIndices)]
         /\ evaluation.result.decision
              = profile.rules[Min(MatchingIndices)].decision

\* an ALLOW rule precedes a DENY rule, both match, and the decision is ALLOW
C7_Witness ==
  /\ Evaluated
  /\ MatchingIndices = {1, 2}
  /\ profile.rules[1].decision = "ALLOW"
  /\ profile.rules[2].decision = "DENY"
  /\ evaluation.result.decision = "ALLOW"

\* ------------------------------------------------------------------------
\* Properties of the artifact store (checked under SpecStore and
\* SpecStoreConc)
\* ------------------------------------------------------------------------
\* the entries the backend holds: map keys, or files of the directory
BlobCount ==
  IF backendKind = "memory" THEN Cardinality(DOMAIN memStore)
  ELSE Cardinality(DOMAIN files)

\* the entries the backend holds for one hash
BlobsFor(hash) ==
  IF backendKind = "memory" THEN {h \in DOMAIN memStore : h = hash}
  ELSE {q \in DOMAIN files : q.name = hash}

\* the bytes the backend returns for a hash it has
BlobOf(hash) ==
  IF backendKind = "memory" THEN memStore[hash]
  ELSE inodes[files[TargetPath(hash)]]

StoredContents == {storeLog[i].data : i \in DOMAIN storeLog}

\* C8: with store() calls made one after the other, storing the same bytes
\* again returns the same handle and the backend holds one blob per
\* distinct content stored, whatever the run ids and MIME types.
C8_Deduplication ==
  Quiet =>
    /\ \A i \in DOMAIN storeLog : storeLog[i].ok
    /\ \A i, j \in DOMAIN storeLog :
         storeLog[i].data = storeLog[j].data
           => storeLog[i].handle = storeLog[j].handle
    /\ BlobCount = Cardinality(StoredContents)
    /\ \A b \in StoredContents :
         /\ Cardinality(BlobsFor(sha256(b))) = 1
         /\ backendHas(sha256(b))
         /\ BlobOf(sha256(b)) = b

\* the same bytes were stored twice, by different runs under different
\* MIME types, and the backend holds one blob
C8_Witness ==
  /\ Quiet
  /\ Len(storeLog) = 2
  /\ storeLog[1].data = storeLog[2].data
  /\ storeLog[1].runId # storeLog[2].runId
  /\ storeLog[1].mime # storeLog[2].mime
  /\ storeLog[1].handle = storeLog[2].handle
  /\ BlobCount = 1

\* C9: two concurrent store() calls for the same bytes from different runs
\* both complete without error, return the same handle and leave exactly
\* one complete blob for the hash, on either backend.
C9_ConcurrentStoreSafe ==
  \A c, d \in Slots :
    (/\ c # d
     /\ calls[c].pc = "done" /\ calls[d].pc = "done"
     /\ calls[c].data = calls[d].data
     /\ calls[c].runId # calls[d].runId) =>
      /\ calls[c].result.ok /\ calls[d].result.ok
      /\ calls[c].result.handle = calls[d].result.handle
      /\ Cardinality(BlobsFor(calls[c].hash)) = 1
      /\ backendHas(calls[c].hash)
      /\ BlobOf(calls[c].hash) = calls[c].data

\* ------------------------------------------------------------------------
\* Properties of the listeners (checked under SpecListen)
\* ------------------------------------------------------------------------
\* the step records an event on run id
Recorded(id) ==
  /\ id \in DOMAIN runs
  /\ Len(runs'[id].events) = Len(runs[id].events) + 1

Repeat(x, n) == [i \in 1..n |-> x]

EventsOf(seq, id) == SelectSeq(seq, LAMBDA e : e.run_id = id)

\* C11: every event recorded by start, append, complete, fail or cancel is
\* delivered, within that call, exactly once per registration to every
\* listener registered at that moment, the listeners being invoked in
\* registration order; so a listener registered once, before a run was
\* created, has received exactly that run's log, in log order.
C11_DeliveredToAll ==
  [][\A id \in RunIds :
       Recorded(id) =>
         /\ notified' = listeners
         /\ \A cb \in Callbacks :
              received'[cb] = received[cb]
                \o Repeat(lastEvent(runs'[id]), Times(listeners, cb))
         /\ \A k \in DOMAIN subs :
              (/\ ~subs[k].undone
               /\ id \notin subs[k].runsThen
               /\ \A j \in DOMAIN subs \ {k} :
                    subs[j].callback # subs[k].callback)
                => EventsOf(received'[subs[k].callback], id)
                     = runs'[id].events]_vars

HasLiveHandle(cb) ==
  \E k \in DOMAIN subs : subs[k].callback = cb /\ ~subs[k].undone

AllHandlesCalled(cb) ==
  /\ \E k \in DOMAIN subs : subs[k].callback = cb
  /\ \A k \in DOMAIN subs : subs[k].callback = cb => subs[k].undone

\* C12: once the unsubscribe function of a listener has been called, the
\* listener is not invoked for any event recorded afterwards; and every
\* event recorded while a registration of it has not been unsubscribed is
\* delivered to it.
C12_Unsubscribe ==
  [][\A id \in RunIds : \A cb \in Callbacks :
       Recorded(id) =>
         /\ AllHandlesCalled(cb) => received'[cb] = received[cb]
         /\ HasLiveHandle(cb) =>
              /\ Len(received'[cb]) > Len(received[cb])
              /\ received'[cb][Len(received'[cb])] = lastEvent(runs'[id])]_vars

\* the half of C12 the code keeps: no invocation after unsubscribing
C12_SilentAfterUnsubscribe ==
  [][\A id \in RunIds : \A cb \in Callbacks :
       (Recorded(id) /\ AllHandlesCalled(cb))
         => received'[cb] = received[cb]]_vars

\* ------------------------------------------------------------------------
\* Further properties of the run manager
\* ------------------------------------------------------------------------
TerminalEvent == [complete |-> "run.completed", cancel |-> "run.completed",
                  fail |-> "run.failed"]

IsPrefix(s, t) == Len(s) <= Len(t) /\ SubSeq(t, 1, Len(s)) = s

\* C13: a successful complete or cancel appends exactly one run.completed
\* event and a successful fail exactly one run.failed event (storing an
\* error and raising the error counter by 1); the event is the last of the
\* log, finished_at is set and the summary returned carries the run's id
\* and the status completed, cancelled or failed.  (Spec)
C13_TerminalEvents ==
  [][\A id \in DOMAIN runs : \A op \in DOMAIN TerminalEvent :
       (Called(op, id) /\ last'.ok) =>
         /\ Len(runs'[id].events) = Len(runs[id].events) + 1
         /\ IsPrefix(runs[id].events, runs'[id].events)
         /\ lastEvent(runs'[id]).event = TerminalEvent[op]
         /\ runs'[id].finished_at = Stamp(clock)
         /\ last'.ret.run_id = id
         /\ last'.ret.status = OpTarget[op]
         /\ runs'[id].status = OpTarget[op]
         /\ IF op = "fail"
              THEN /\ runs'[id].error \in Errors
                   /\ runs'[id].errors = runs[id].errors + 1
              ELSE /\ runs'[id].error = runs[id].error
                   /\ runs'[id].errors = runs[id].errors]_vars

\* a running run with an appended event was cancelled
C13_Witness ==
  /\ last.op = "cancel" /\ last.ok
  /\ last.ret.status = "cancelled"
  /\ Len(runs[last.run_id].events) = 3
  /\ lastEvent(runs[last.run_id]).event = "run.completed"

\* C14: the log of a run only grows at its end: in every step, whichever
\* operation it is - the caller editing the array events() returned
\* included - the log before is a prefix of the log after.  (SpecQuery)
C14_AppendOnly ==
  [][\A id \in DOMAIN runs :
       /\ id \in DOMAIN runs'
       /\ IsPrefix(runs[id].events, runs'[id].events)]_vars

\* the caller has put an item of its own into the array events() returned
\* and the run's log, two events long, does not have it
C14_Witness ==
  /\ held # Null
  /\ \E i \in DOMAIN held.array.items : held.array.items[i] = Forged
  /\ Len(runs[held.run_id].events) = 2
  /\ \A i \in DOMAIN runs[held.run_id].events :
       runs[held.run_id].events[i] # Forged

FreshRun(id) ==
  [envelope |-> Envelope(id), status |-> "pending", step |-> 0,
   events |-> <<>>, started_at |-> Null, finished_at |-> Null,
   error |-> Null, tool_calls |-> 0, artifacts_created |-> 0, errors |-> 0]

\* C18: create fails with an already-exists error when the manager holds
\* a run of that id, whatever its status, and leaves it untouched;
\* otherwise it registers a pending run with step 0, an empty log, null
\* started_at, finished_at and error and zero counters.  No listener is
\* notified either way.  (SpecListen)
C18_Create ==
  [][\A id \in RunIds :
       Called("create", id) =>
         /\ IF id \in DOMAIN runs
              THEN /\ ~last'.ok
                   /\ last'.error = [kind |-> "already_exists", run_id |-> id]
                   /\ runs' = runs
              ELSE /\ last'.ok
                   /\ DOMAIN runs' = DOMAIN runs \cup {id}
                   /\ runs'[id] = FreshRun(id)
                   /\ \A other \in DOMAIN runs : runs'[other] = runs[other]
         /\ notified' = <<>>
         /\ received' = received]_vars

\* create was refused for a failed run while a listener was registered
C18_Witness ==
  /\ last.op = "create" /\ ~last.ok
  /\ last.error.kind = "already_exists"
  /\ runs[last.run_id].status = "failed"
  /\ listeners # <<>>

RequireOps == {"start", "append", "complete", "fail", "cancel",
               "currentStep", "events", "isOverBudget"}

\* C19: start, append, complete, fail, cancel, currentStep, events and
\* isOverBudget on an id the manager does not hold fail with a not-found
\* error naming the id and change nothing (the run is not created); get
\* returns null for it.  (SpecQuery)
C19_UnknownRun ==
  [][\A id \in RunIds :
       id \notin DOMAIN runs =>
         /\ \A op \in RequireOps :
              Called(op, id) =>
                /\ ~last'.ok
                /\ last'.error = [kind |-> "not_found", run_id |-> id]
                /\ runs' = runs
                /\ held' = held
         /\ Called("get", id) =>
              /\ last'.ok
              /\ last'.ret = Null
              /\ runs' = runs]_vars

\* get returned null for an id the manager does not hold
C19_Witness ==
  /\ last.op = "get" /\ last.ok
  /\ last.run_id \notin DOMAIN runs
  /\ last.ret = Null

\* C20: start on a pending run sets the status to running, stamps
\* started_at, appends exactly one run.started event with step_id 0 that
\* carries a copy of the run's envelope, and returns that event.  (Spec)
C20_StartEvent ==
  [][\A id \in DOMAIN runs :
       (Called("start", id) /\ runs[id].status = "pending") =>
         /\ last'.ok
         /\ runs'[id].status = "running"
         /\ runs'[id].started_at = Stamp(clock)
         /\ runs'[id].events = Append(runs[id].events, last'.ret)
         /\ last'.ret.event = "run.started"
         /\ last'.ret.step_id = 0
         /\ "envelope" \in DOMAIN last'.ret
         /\ last'.ret.envelope = runs[id].envelope]_vars

\* what start does do: everything C20 says but the envelope
C20_StartEventBare ==
  [][\A id \in DOMAIN runs :
       (Called("start", id) /\ runs[id].status = "pending") =>
         /\ last'.ok
         /\ runs'[id].status = "running"
         /\ runs'[id].started_at = Stamp(clock)
         /\ runs'[id].events = Append(runs[id].events, last'.ret)
         /\ last'.ret.event = "run.started"
         /\ last'.ret.step_id = 0
         /\ DOMAIN last'.ret
              = {"run_id", "agent_id", "step_id", "event", "timestamp"}]_vars

\* ------------------------------------------------------------------------
\* Properties of checkBudget (checked under SpecBudget)
\* ------------------------------------------------------------------------
\* the four dimensions: violation text, usage field, ceiling field
Dimensions ==
  {[text |-> "Time budget exceeded", used |-> "elapsed_ms",
    max |-> "max_time_ms"],
   [text |-> "Token budget exceeded", used |-> "tokens_used",
    max |-> "max_tokens"],
   [text |-> "Tool call budget exceeded", used |-> "tool_calls",
    max |-> "max_tool_calls"],
   [text |-> "Artifact budget exceeded", used |-> "artifacts_mb",
    max |-> "max_artifacts_mb"]}

Optional == {"max_tool_calls", "max_artifacts_mb"}

Exceeded(budgets, usage) ==
  {dim \in Dimensions :
     IF dim.max \in Optional
       THEN /\ budgets[dim.max] # Null
            /\ usage[dim.used] > budgets[dim.max].value
       ELSE usage[dim.used] > budgets[dim.max]}

\* C15: checkBudget returns exactly one violation per dimension whose
\* ceiling is defined and strictly exceeded - none for an undefined
\* ceiling or for usage equal to the ceiling - and within_budget is true
\* exactly when there is no violation.
C15_CheckBudget ==
  budgetCheck # Null =>
    LET r == budgetCheck.result
        over == Exceeded(budgetCheck.budgets, budgetCheck.usage)
    IN /\ Len(r.violations) = Cardinality(over)
       /\ \A dim \in Dimensions :
            Cardinality({i \in DOMAIN r.violations :
                           r.violations[i].text = dim.text})
              = (IF dim \in over THEN 1 ELSE 0)
       /\ r.within_budget <=> r.violations = <<>>

\* time and tool calls are exceeded, tokens are at their ceiling and the
\* artifact ceiling is undefined although artifacts were used
C15_Witness ==
  /\ budgetCheck # Null
  /\ Len(budgetCheck.result.violations) = 2
  /\ budgetCheck.usage.tokens_used = budgetCheck.budgets.max_tokens
  /\ budgetCheck.budgets.max_artifacts_mb = Null
  /\ budgetCheck.usage.artifacts_mb > 0
  /\ ~budgetCheck.result.within_budget

\* ------------------------------------------------------------------------
\* Properties of the metadata index (checked under SpecStore)
\* ------------------------------------------------------------------------
\* the store() calls, by position in storeLog, that stored content of hash h
StoresOf(h) == {i \in DOMAIN storeLog : sha256(storeLog[i].data) = h}

Max(S) == CHOOSE m \in S : \A x \in S : m >= x

LastStore(h) == storeLog[Max(StoresOf(h))]

StoredHashes == {sha256(storeLog[i].data) : i \in DOMAIN storeLog}

\* C16: when no call is in progress, the metadata index has exactly one
\* entry per stored content, carrying the run id and the mime type of the
\* most recent store call of that content; so listByRun(r) is exactly the
\* entries whose most recent store call was made with run id r.
C16_LastWriterWins ==
  Quiet =>
    /\ DOMAIN metadata = StoredHashes
    /\ \A h \in DOMAIN metadata :
         /\ metadata[h].run_id = LastStore(h).runId
         /\ metadata[h].mime = LastStore(h).mime
         /\ metadata[h].handle = LastStore(h).handle
    /\ \A r \in RunIds :
         listByRun(r)
           = {metadata[h] : h \in {k \in StoredHashes : LastStore(k).runId = r}}

\* the same bytes were stored by r1, then by r2 with another mime type:
\* listByRun(r2) has the entry and listByRun(r1) is empty
C16_Witness ==
  /\ Quiet
  /\ Len(storeLog) = 2
  /\ storeLog[1].data = storeLog[2].data
  /\ storeLog[1].runId = "r1" /\ storeLog[2].runId = "r2"
  /\ storeLog[1].mime # storeLog[2].mime
  /\ listByRun("r1") = {}
  /\ Cardinality(listByRun("r2")) = 1

\* ------------------------------------------------------------------------
\* Properties of the tool bridge (checked under SpecBridge)
\* ------------------------------------------------------------------------
\* the rules of the profile that match ("tool.execute", the tool called)
ToolRuleIndices ==
  {i \in DOMAIN profile.rules :
     /\ profile.rules[i].action = "tool.execute"
     /\ matchesScope(profile.rules[i].scope, toolCall.tool)}

\* C17: a bridged tool with a policy gate calls the executor only when
\* the gate's evaluation of ("tool.execute", tool name) is ALLOW; on DENY
\* it returns a result flagged denied, on REQUIRE_APPROVAL one flagged
\* requires_approval, the executor not being called; with no matching
\* rule the executor is not called.
C17_GatedExecution ==
  (toolCall # Null /\ toolCall.gated) =>
    LET ev == toolCall.evaluation
    IN /\ ev.decision \in Decisions
       /\ ToolRuleIndices = {} => ev.decision = "DENY"
       /\ ToolRuleIndices # {}
            => ev.decision = profile.rules[Min(ToolRuleIndices)].decision
       /\ toolCall.executorCalls # <<>> <=> ev.decision = "ALLOW"
       /\ ev.decision = "ALLOW"
            => /\ toolCall.executorCalls = <<toolCall.tool>>
               /\ toolCall.result = ExecutorResult(toolCall.tool)
       /\ ev.decision = "DENY"
            => /\ "denied" \in DOMAIN toolCall.result
               /\ toolCall.result.denied
       /\ ev.decision = "REQUIRE_APPROVAL"
            => /\ "requires_approval" \in DOMAIN toolCall.result
               /\ toolCall.result.requires_approval
       /\ ToolRuleIndices = {} => toolCall.executorCalls = <<>>

\* a gated tool whose only matching rule says REQUIRE_APPROVAL was called
\* and the executor was not
C17_Witness ==
  /\ toolCall # Null /\ toolCall.gated
  /\ toolCall.evaluation.decision = "REQUIRE_APPROVAL"
  /\ toolCall.executorCalls = <<>>
  /\ toolCall.tool = <<"s", "t">>

\* a gated tool was called under a profile none of whose rules matches it
C17_WitnessNoRule ==
  /\ toolCall # Null /\ toolCall.gated
  /\ profile.rules # <<>>
  /\ ToolRuleIndices = {}
  /\ toolCall.executorCalls = <<>>

\* ------------------------------------------------------------------------
\* Properties of the free functions (checked under SpecCompat)
\* ------------------------------------------------------------------------
\* C22: with the free functions only, finaliseRun(id) on a run made by
\* createRun returns a summary with run_id = id and status completed.
C22_FinaliseCompletes ==
  [][\A id \in RunIds :
       (Called("complete", id) /\ has(id))
         => /\ last'.ok
            /\ last'.ret.run_id = id
            /\ last'.ret.status = "completed"]_vars

\* what the free functions do instead: no free function starts a run, so
\* every run stays pending and finaliseRun and appendEvent always throw
C22_FreeFunctionsNeverStart ==
  /\ \A id \in DOMAIN runs : runs[id].status = "pending"
  /\ last.op \in {"append", "complete"} => ~last.ok

\* ------------------------------------------------------------------------
\* Properties of replay (checked under SpecReplay)
\* ------------------------------------------------------------------------
\* the event types of a run's log, in order
TypesOf(run) == [i \in DOMAIN run.events |-> run.events[i].event]

Counters(run) == <<run.tool_calls, run.artifacts_created, run.errors>>

\* the run states there are: those of the manager and those the caller
\* kept from the manager before
RunStates ==
  {runs[id] : id \in DOMAIN runs} \cup {kept[id] : id \in DOMAIN kept}

\* C21: any two runs whose logs hold the same sequence of event types have
\* the same status and the same counters.
C21_LogDeterminesOutcome ==
  \A a, b \in RunStates :
    TypesOf(a) = TypesOf(b)
      => a.status = b.status /\ Counters(a) = Counters(b)

\* the part of C21 that holds: among runs of the same status, the log's
\* event types determine the counters
C21_LogDeterminesCounters ==
  \A a, b \in RunStates :
    (TypesOf(a) = TypesOf(b) /\ a.status = b.status)
      => Counters(a) = Counters(b)

\* ------------------------------------------------------------------------
\* Properties of runs side by side (checked under Spec)
\* ------------------------------------------------------------------------
RunOps == {"start", "append", "complete", "fail", "cancel"}

\* C26: an operation addressed to one run id, whether it succeeds or
\* throws, leaves every other run of the manager exactly as it was (status,
\* step, log, timestamps, error, counters); several runs can be running at
\* once.
C26_RunsIndependent ==
  [][\A id \in RunIds : \A op \in RunOps :
       Called(op, id)
         => \A other \in DOMAIN runs \ {id} :
              other \in DOMAIN runs' /\ runs'[other] = runs[other]]_vars

\* two runs are running at once and an append to one of them has succeeded
C26_Witness ==
  /\ DOMAIN runs = {"r1", "r2"}
  /\ runs["r1"].status = "running"
  /\ runs["r2"].status = "running"
  /\ last.op = "append" /\ last.run_id = "r1" /\ last.ok
  /\ runs["r1"].step = 2 /\ runs["r2"].step = 1

\* C27: over every step of the manager - an operation that succeeds or one
\* that throws - none of a run's counters tool_calls, artifacts_created and
\* errors gets smaller, and no run is dropped.
C27_CountersMonotone ==
  [][\A id \in DOMAIN runs :
       /\ id \in DOMAIN runs'
       /\ runs'[id].tool_calls >= runs[id].tool_calls
       /\ runs'[id].artifacts_created >= runs[id].artifacts_created
       /\ runs'[id].errors >= runs[id].errors]_vars

\* a run that counted an appended run.failed has then been failed: both
\* ways of raising errors have acted on it
C27_Witness ==
  /\ last.op = "fail" /\ last.ok
  /\ has(last.run_id)
  /\ runs[last.run_id].errors = 2
  /\ Count(appendLog[last.run_id], "run.failed") = 1

\* ------------------------------------------------------------------------
\* Properties of the control state snapshot (checked under SpecControl)
\* ------------------------------------------------------------------------
ControlStateOf(rs) == buildControlState(StateInput(rs, 0, 0))

\* C30: for any list of run states the snapshot's active_runs is the
\* number of pending or running runs and completed_runs the number of
\* completed, failed or cancelled ones, which add up to the length of the
\* list; taken of the manager's list(), completed_runs never gets smaller.
C30_ControlState ==
  [][/\ (fnCall' # Null /\ fnCall'.fn = "buildControlState")
          => LET rs == fnCall'.runs
                 cs == fnCall'.result
             IN /\ cs.active_runs =
                     Cardinality({i \in DOMAIN rs :
                                    rs[i].status \in {"pending", "running"}})
                /\ cs.completed_runs =
                     Cardinality({i \in DOMAIN rs :
                                    rs[i].status \in TERMINAL})
                /\ cs.active_runs + cs.completed_runs = Len(rs)
     /\ ControlStateOf(runList').completed_runs
          >= ControlStateOf(runList).completed_runs]_vars

\* a snapshot was taken of a manager that holds a failed run next to a
\* running one
C30_Witness ==
  /\ fnCall # Null
  /\ fnCall.fn = "buildControlState"
  /\ fnCall.runs = runList
  /\ Len(runList) = 2
  /\ \E i \in 1..2 : runList[i].status = "failed"
  /\ fnCall.result.active_runs = 1
  /\ fnCall.result.completed_runs = 1

\* a snapshot was taken of a made-up list holding every status
C30_WitnessAnyList ==
  /\ fnCall # Null
  /\ fnCall.fn = "buildControlState"
  /\ Len(fnCall.runs) = MaxList
  /\ fnCall.result.active_runs = 1
  /\ fnCall.result.completed_runs = MaxList - 1

\* ------------------------------------------------------------------------
\* Properties of scope matching (checked under SpecScope)
\* ------------------------------------------------------------------------
\* the glob reading of a pattern: from pattern position i and scope
\* position j, ** takes any characters, * any characters but "/", ? one
\* character that is not "/", any other character itself
RECURSIVE GlobMatch(_, _, _, _)
GlobMatch(p, i, s, j) ==
  IF i > Len(p) THEN j > Len(s)
  ELSE IF p[i] = "*" /\ i < Len(p) /\ p[i + 1] = "*"
    THEN \/ GlobMatch(p, i + 2, s, j)
         \/ j <= Len(s) /\ GlobMatch(p, i, s, j + 1)
  ELSE IF p[i] = "*"
    THEN \/ GlobMatch(p, i + 1, s, j)
         \/ j <= Len(s) /\ s[j] # "/" /\ GlobMatch(p, i, s, j + 1)
  ELSE IF p[i] = "?"
    THEN j <= Len(s) /\ s[j] # "/" /\ GlobMatch(p, i + 1, s, j + 1)
  ELSE j <= Len(s) /\ s[j] = p[i] /\ GlobMatch(p, i + 1, s, j + 1)

GlobSays(pattern, scope) ==
  \/ pattern = <<"*">>
  \/ pattern = scope
  \/ GlobMatch(pattern, 1, scope, 1)

ScopeMatched == fnCall # Null /\ fnCall.fn = "matchesScope"

HasLineBreak(s) == \E i \in DOMAIN s : s[i] \in LINE_TERMINATORS

\* C28: matchesScope(pattern, scope) is true exactly when pattern is "*",
\* or pattern equals scope, or the whole scope matches pattern read as a
\* glob (** any characters, * any run of non-"/" characters, ? one
\* non-"/" character, every other character itself, case-sensitively).
C28_MatchesScopeIsGlob ==
  ScopeMatched => (fnCall.result <=> GlobSays(fnCall.pattern, fnCall.scope))

\* what holds: matchesScope is that glob on every scope without a line
\* break, and never matches a scope the glob does not match
C28_GlobWithoutLineBreaks ==
  ScopeMatched
    => /\ fnCall.result => GlobSays(fnCall.pattern, fnCall.scope)
       /\ ~HasLineBreak(fnCall.scope)
            => (fnCall.result <=> GlobSays(fnCall.pattern, fnCall.scope))

\* ------------------------------------------------------------------------
\* Properties of delete, retrieve, has and getMetadata (checked under
\* SpecArtifact)
\* ------------------------------------------------------------------------
\* this step begins or completes a call of the given operation
StoreCalled(op) ==
  /\ storeCall' # storeCall
  /\ storeCall'.op = op

\* the handle names content that was stored and has been deleted since
Deleted(handle) ==
  /\ extractHash(handle) # Null
  /\ extractHash(handle).value \in StoredHashes \ DOMAIN live

\* C23: delete(h) removes the metadata entry and the backend blob of h and
\* returns true exactly when the artifact existed before the call (a
\* handle of a foreign scheme returns false and removes nothing);
\* afterwards has(h) is false, retrieve(h) and getMetadata(h) return null
\* and another delete(h) returns false.
C23_Delete ==
  [][/\ StoreCalled("delete") /\ storeCall'.hash = Null =>
          /\ storeCall'.ret = FALSE
          /\ UNCHANGED <<metadata, memStore, files>>
     /\ StoreCalled("delete") /\ Settled /\ storeCall'.hash # Null =>
          /\ storeCall'.existed <=> storeCall'.hash.value \in DOMAIN live
          /\ storeCall'.existed <=> storeCall'.hash.value \in DOMAIN metadata
          /\ storeCall'.hash.value \notin DOMAIN metadata'
     /\ StoreCalled("delete") /\ storeCall'.pc = "done"
          /\ storeCall'.hash # Null =>
          /\ storeCall'.ret = storeCall'.existed
          /\ storeCall'.hash.value \notin DOMAIN metadata'
          /\ storeCall'.hash.value \notin DOMAIN memStore'
          /\ TargetPath(storeCall'.hash.value) \notin DOMAIN files'
     /\ StoreCalled("delete") /\ Settled /\ Deleted(storeCall'.handle) =>
          storeCall'.existed = FALSE
     /\ \A op \in {"retrieve", "getMetadata", "has"} :
          StoreCalled(op) /\ Deleted(storeCall'.handle) =>
            storeCall'.ret = IF op = "has" THEN FALSE ELSE Null]_vars

\* an artifact was stored and deleted, and another delete of its handle
\* has returned false
C23_Witness ==
  /\ storeCall # Null
  /\ storeCall.op = "delete"
  /\ storeCall.pc = "done"
  /\ storeCall.ret = FALSE
  /\ Deleted(storeCall.handle)
  /\ ~backendHas(storeCall.hash.value)

\* a delete has returned true
C23_WitnessTrue ==
  /\ storeCall # Null
  /\ storeCall.op = "delete"
  /\ storeCall.pc = "done"
  /\ storeCall.ret = TRUE

\* C24: once store(b, mime, run) has returned h and until delete(h) is
\* called, retrieve(h) returns exactly b and has(h) is true, whatever else
\* was stored or deleted in between; retrieve of a handle whose content was
\* never stored, or of a handle of another scheme, returns null.
C24_RetrieveStored ==
  [][/\ StoreCalled("retrieve") /\ storeCall'.hash # Null
          /\ storeCall'.hash.value \in DOMAIN live =>
            storeCall'.ret = Some(live[storeCall'.hash.value])
     /\ StoreCalled("has") /\ storeCall'.hash # Null
          /\ storeCall'.hash.value \in DOMAIN live =>
            storeCall'.ret = TRUE
     /\ StoreCalled("retrieve") /\ storeCall'.hash = Null =>
            storeCall'.ret = Null
     /\ StoreCalled("retrieve") /\ storeCall'.hash # Null
          /\ storeCall'.hash.value \notin StoredHashes =>
            storeCall'.ret = Null]_vars

\* two contents were stored and the second deleted; retrieve of the first
\* handle has returned the first content
C24_Witness ==
  /\ storeCall # Null
  /\ storeCall.op = "retrieve"
  /\ storeCall.ret # Null
  /\ storeCall.handle \in {storeLog[i].handle : i \in DOMAIN storeLog}
  /\ storeCall.ret.value = live[storeCall.hash.value]
  /\ \E h \in StoredHashes : h \notin DOMAIN live

\* retrieve of a handle of another scheme has returned null
C24_WitnessWrongScheme ==
  /\ storeCall # Null
  /\ storeCall.op = "retrieve"
  /\ storeCall.handle.scheme # ARTIFACT_SCHEME
  /\ storeCall.ret = Null
  /\ StoredHashes # {}

\* ------------------------------------------------------------------------
\* Properties of the harness (checked under SpecHarness)
\* ------------------------------------------------------------------------
\* this step is a call of one of the budget and policy observers
Observed ==
  \/ \E id \in RunIds : Called("isOverBudget", id)
  \/ \E id \in RunIds : Called("harness.checkBudget", id)
  \/ budgetCheck' # budgetCheck
  \/ evaluation' # evaluation

\* the result of checkBudget says the run is over budget
OverBudget(id) ==
  /\ has(id)
  /\ ~checkBudget(runs[id].envelope.budgets,
                  harnessUsage(runs[id])).within_budget

\* C25: isOverBudget, the policy engine's checkBudget and evaluate, and the
\* harness's checkBudget leave every run as it is (status, step, event log,
\* counters and all); a run leaves the running status only in a step that
\* is the caller's complete, fail or cancel of that run, over budget or not.
C25_ObserversChangeNothing ==
  [][/\ Observed => runs' = runs /\ appendLog' = appendLog
     /\ \A id \in DOMAIN runs :
          runs[id].status = "running" /\ id \in DOMAIN runs'
            /\ runs'[id].status # "running" =>
              \E op \in {"complete", "fail", "cancel"} : Called(op, id)]_vars

\* the harness has just reported a run over its time and its tool-call
\* budget, and the run is running
C25_Witness ==
  /\ last.op = "harness.checkBudget"
  /\ last.ok
  /\ Len(last.ret.violations) = 2
  /\ runs[last.run_id].status = "running"
  /\ OverBudget(last.run_id)

\* the text of a violation is among the violations of a result
Reports(result, text) ==
  \E i \in DOMAIN result.violations : result.violations[i].text = text

\* C29: for a running run whose budget has max_tool_calls = m and on which
\* tool.called was appended k times, the harness's checkBudget reports
\* "Tool call budget exceeded" and within_budget = false iff k > m; when
\* k > m and no other dimension is exceeded, that is the only violation.
C29_ToolCallsFeedBudget ==
  [][\A id \in RunIds :
       Called("harness.checkBudget", id) /\ has(id)
         /\ runs[id].status = "running"
         /\ runs[id].envelope.budgets.max_tool_calls # Null =>
           LET k == Count(appendLog[id], "tool.called")
               m == runs[id].envelope.budgets.max_tool_calls.value
               result == last'.ret
           IN /\ last'.ok
              /\ (/\ Reports(result, "Tool call budget exceeded")
                  /\ ~result.within_budget) <=> k > m
              /\ k > m /\ clock - runs[id].started_at.t
                            <= runs[id].envelope.budgets.max_time_ms =>
                   /\ Len(result.violations) = 1
                   /\ result.violations[1].used = k
                   /\ result.violations[1].max = m]_vars

\* a running run with the largest tool-call ceiling explored got one call
\* more than the ceiling, and checkBudget reported exactly that violation
C29_Witness ==
  /\ last.op = "harness.checkBudget"
  /\ last.ok
  /\ runs[last.run_id].status = "running"
  /\ Len(last.ret.violations) = 1
  /\ Reports(last.ret, "Tool call budget exceeded")
  /\ ~last.ret.within_budget
  /\ Count(appendLog[last.run_id], "tool.called") = MaxUsage

\* the run is within its tool-call ceiling and checkBudget said so
C29_WitnessWithin ==
  /\ last.op = "harness.checkBudget"
  /\ last.ok
  /\ runs[last.run_id].status = "running"
  /\ last.ret.within_budget
  /\ Count(appendLog[last.run_id], "tool.called") = MaxUsage - 1

\* ------------------------------------------------------------------------
\* Counters and the event log (checked under Spec)
\* ------------------------------------------------------------------------
\* the number of events of a type in a run's log
EventCount(run, type) ==
  Cardinality({i \in DOMAIN run.events : run.events[i].event = type})

\* C31: between calls, with no throwing listener, every run's tool_calls,
\* artifacts_created and errors are the numbers of tool.called,
\* artifact.created and run.failed events of its log, a run.failed event
\* counting the same whether append or fail recorded it.
C31_CountersMatchLog ==
  \A id \in DOMAIN runs :
    /\ runs[id].tool_calls = EventCount(runs[id], "tool.called")
    /\ runs[id].artifacts_created = EventCount(runs[id], "artifact.created")
    /\ runs[id].errors = EventCount(runs[id], "run.failed")

\* a run.failed event was appended to a run that then failed: two errors
C31_Witness ==
  \E id \in DOMAIN runs :
    /\ runs[id].status = "failed"
    /\ Count(appendLog[id], "run.failed") = 1
    /\ runs[id].errors = 2
    /\ EventCount(runs[id], "run.failed") = 2

\* ------------------------------------------------------------------------
\* Failing calls (checked under SpecListen)
\* ------------------------------------------------------------------------
ManagerOps == {"create", "start", "append", "complete", "fail", "cancel"}

\* the errors the manager itself throws
ManagerErrors ==
  {"already_exists", "not_found", "invalid_transition", "cannot_append"}

\* this step is a manager call that the manager rejected
Rejected ==
  /\ last'.op \in ManagerOps
  /\ ~last'.ok
  /\ last'.error.kind \in ManagerErrors

\* C32: a create, start, append, complete, fail or cancel call that fails
\* with duplicate-id, not-found, invalid-transition or
\* append-while-not-running leaves the run map exactly as it was (the set
\* of runs and every field of every run) and notifies no listener.
C32_FailedCallChangesNothing ==
  [][Rejected =>
       /\ runs' = runs
       /\ appendLog' = appendLog
       /\ notified' = <<>>
       /\ received' = received
       /\ listeners' = listeners]_vars

\* with a listener registered, a call on a run that has events was rejected
\* as an invalid transition
C32_Witness ==
  /\ ~last.ok
  /\ last.error.kind = "invalid_transition"
  /\ listeners # <<>>
  /\ last.run_id \in DOMAIN runs
  /\ runs[last.run_id].events # <<>>
  /\ notified = <<>>

\* ------------------------------------------------------------------------
\* Concurrent store and delete (checked under SpecArtifactConc)
\* ------------------------------------------------------------------------
\* the hashes of the contents stored
ContentHashes == {sha256(b) : b \in Blobs}

\* C33: over an initially empty backend and every interleaving of store
\* and delete calls, whenever no call is in flight the metadata index has
\* an entry for a hash iff the backend holds a blob for it.
C33_MetadataIffBlob ==
  Quiet /\ NoDeletePending =>
    \A h \in ContentHashes \cup DOMAIN metadata :
      h \in DOMAIN metadata <=> backendHas(h)

\* the same on the in-memory backend alone
C33_MetadataIffBlobInMemory ==
  backendKind = "memory" => C33_MetadataIffBlob

\* no call in flight ever finds a blob without metadata
C33_NoBlobWithoutMetadata ==
  Quiet /\ NoDeletePending =>
    \A h \in ContentHashes : backendHas(h) => h \in DOMAIN metadata

\* ------------------------------------------------------------------------
\* Properties of AgentLoop (checked under SpecLoopFair)
\* ------------------------------------------------------------------------
TickRunning(id) ==
  IF has(id) THEN runs[id].status = "running" ELSE FALSE

TickRunEnded(id) ==
  IF has(id)
    THEN runs[id].status \in TERMINAL /\ loop.activeRunId # Some(id)
    ELSE FALSE

\* C34: a run that tick() created and started eventually reaches a terminal
\* status with activeRunId no longer naming it, whatever its consumer does
\* after phase "complete" or "error"
C34_TickRunEnds ==
  \A id \in RunIds : TickRunning(id) ~> TickRunEnded(id)

\* the same for the runs of a consumer that iterates until the generator
\* is done
C34_DrainedRunEnds ==
  \A id \in RunIds :
    (TickRunning(id) /\ loop.run_id = id /\ loop.consumer = "drain")
      ~> TickRunEnded(id)

\* a running run that is neither the active run nor the run of a suspended
\* generator: the handler left its loop and a later tick() replaced
\* activeRunId
Abandoned(id) ==
  /\ TickRunning(id)
  /\ loop.activeRunId # Some(id)
  /\ loop.pc = "idle" \/ loop.run_id # id

\* no later call of tick() or shutdown() ends an abandoned run
C34_AbandonedStaysRunning ==
  [][\A id \in RunIds : Abandoned(id) => Abandoned(id)']_vars

C34_SomeRunAbandoned == \E id \in RunIds : Abandoned(id)

\* between ticks, activeRunId names no run that has reached a terminal
\* status (shutdown() completes the active run without clearing it)
C34_ShutdownClearsActiveRun ==
  \A id \in RunIds :
    (has(id) /\ runs[id].status \in TERMINAL /\ loop.pc = "idle")
      => loop.activeRunId # Some(id)

\* ------------------------------------------------------------------------
\* Throwing listeners (checked under SpecListen)
\* ------------------------------------------------------------------------
\* this step is a manager call that propagated a listener's exception
ListenerThrewIn(ops) ==
  /\ last'.op \in ops
  /\ ~last'.ok
  /\ last'.error.kind = "listener_threw"

\* the event is in the log and the step counter and the matching counter
\* are both updated
FullyApplied(before, after) ==
  /\ Len(after.events) = Len(before.events) + 1
  /\ after.step = before.step + 1
  /\ Counters(after) = Counters(bumpCounters(before, lastEvent(after).event))

\* C35: after start, append, complete, fail or cancel propagates a
\* listener's exception, either the run is exactly as before the call, or
\* the event is in the log, step and the matching counter are both updated
\* and every registered listener has been notified of the event.
C35_NoPartialOperation ==
  [][ListenerThrewIn({"start", "append", "complete", "fail", "cancel"}) =>
       \/ runs'[last'.run_id] = runs[last'.run_id]
       \/ /\ FullyApplied(runs[last'.run_id], runs'[last'.run_id])
          /\ notified' = listeners]_vars

\* the run's own fields alone, leaving aside who was notified
C35_RunNotPartial ==
  [][ListenerThrewIn({"start", "append", "complete", "fail", "cancel"}) =>
       \/ runs'[last'.run_id] = runs[last'.run_id]
       \/ FullyApplied(runs[last'.run_id], runs'[last'.run_id])]_vars

\* the same for the four calls that write every field before recordEvent
C35_TransitionsNotPartial ==
  [][ListenerThrewIn({"start", "complete", "fail", "cancel"}) =>
       FullyApplied(runs[last'.run_id], runs'[last'.run_id])]_vars

\* ------------------------------------------------------------------------
\* Order of delivery (checked under SpecReentrant)
\* ------------------------------------------------------------------------
\* the events of any one run come in strictly increasing step_id order
InStepOrder(evs) ==
  \A i, j \in DOMAIN evs :
    (i < j /\ evs[i].run_id = evs[j].run_id)
      => evs[i].step_id < evs[j].step_id

\* received[cb] is what one registration noted when on(cb) was called once
RegisteredOnce(cb) ==
  Cardinality({k \in DOMAIN subs : subs[k].callback = cb}) = 1

\* C36: every listener receives the events of any single run in strictly
\* increasing step_id order, also when a listener calls append, complete,
\* fail or cancel from inside its callback while others are registered.
C36_DeliveredInStepOrder ==
  \A cb \in DOMAIN received :
    RegisteredOnce(cb) => InStepOrder(received[cb])

\* the listener registered first is handed every event before any callback
\* can react to it, and so receives each run's events in order
C36_FirstInStepOrder ==
  (subs # <<>> /\ RegisteredOnce(subs[1].callback))
    => InStepOrder(received[subs[1].callback])

\* ------------------------------------------------------------------------
\* Timestamps and error of a run (checked under Spec)
\* ------------------------------------------------------------------------
\* start() has been called on the run with success: only start() records
\* run.started on a run that has no events yet
Started(run) == run.events # <<>> /\ run.events[1].event = "run.started"

\* C37: in every observable state of a run, finished_at is non-null iff
\* the status is completed, failed or cancelled; started_at is non-null iff
\* the run has been started (null while pending and when cancelled while
\* pending); error is non-null iff the status is failed.
C37_TimestampsFollowStatus ==
  \A id \in DOMAIN runs :
    /\ (runs[id].finished_at # Null) <=> (runs[id].status \in TERMINAL)
    /\ (runs[id].started_at # Null) <=> Started(runs[id])
    /\ runs[id].status = "pending" => runs[id].started_at = Null
    /\ runs[id].status \in {"running", "completed", "failed"}
         => runs[id].started_at # Null
    /\ (runs[id].error # Null) <=> (runs[id].status = "failed")

\* one run was cancelled while pending, another was started and failed
C37_Witness ==
  /\ \E id \in DOMAIN runs :
       /\ runs[id].status = "cancelled"
       /\ runs[id].started_at = Null
       /\ runs[id].finished_at # Null
  /\ \E id \in DOMAIN runs :
       /\ runs[id].status = "failed"
       /\ runs[id].started_at # Null
       /\ runs[id].error # Null

\* ------------------------------------------------------------------------
\* Artifact usage of a run (checked under SpecHarnessStore, which deletes
\* no artifact)
\* ------------------------------------------------------------------------
\* checkBudget(runId) of the harness reports "Artifact budget exceeded"
ArtifactsExceeded(id) ==
  Reports(checkBudget(runs[id].envelope.budgets, harnessUsage(runs[id])),
          "Artifact budget exceeded")

\* C38: while no artifact is deleted, a run's artifact usage as
\* checkBudget(runId) computes it never decreases, and a run for which
\* "Artifact budget exceeded" is reported is reported so by every later
\* check, whatever other runs store.
C38_ArtifactUsageMonotone ==
  [][\A id \in DOMAIN runs :
       /\ artifactBytes(id)' >= artifactBytes(id)
       /\ ArtifactsExceeded(id) => ArtifactsExceeded(id)']_vars

\* the artifact usage of all runs together never decreases
C38_TotalUsageMonotone ==
  [][SumSizes({metadata[h] : h \in DOMAIN metadata})'
       >= SumSizes({metadata[h] : h \in DOMAIN metadata})]_vars

\* a store() for a run never lowers that run's own usage
C38_OwnStoreMonotone ==
  [][\A id \in DOMAIN runs :
       (calls["c1"].pc = "meta" /\ calls["c1"].runId = id)
         => artifactBytes(id)' >= artifactBytes(id)]_vars

\* ------------------------------------------------------------------------
\* Unsubscribing (checked under SpecListen)
\* ------------------------------------------------------------------------
\* the on() calls of callback cb whose unsubscribe function was not called
LiveRegistrations(cb) ==
  {k \in DOMAIN subs : subs[k].callback = cb /\ ~subs[k].undone}

\* C39: an unsubscribe function removes only the registration that
\* produced it; every other registration, a second one of the same
\* callback included, stays in the listener list and keeps being called.
C39_UnsubscribeRemovesOne ==
  \A cb \in Callbacks :
    Times(listeners, cb) = Cardinality(LiveRegistrations(cb))

\* registrations of other callbacks are never removed
C39_OthersKept ==
  [][\A k \in DOMAIN subs :
       (last'.op = "unsubscribe" /\ last'.ret = k)
         => \A cb \in Callbacks \ {subs[k].callback} :
              Times(listeners', cb) = Times(listeners, cb)]_vars

\* ------------------------------------------------------------------------
\* Duration of a run (checked under SpecTimed, whose clock only advances)
\* ------------------------------------------------------------------------
\* the last call returned a Run Summary
SummaryReturned ==
  last.op \in {"complete", "fail", "cancel"} /\ last.ok

\* C40: under a clock that never goes backwards every Run Summary has
\* duration_ms >= 0, the summary of a run cancelled while pending included.
C40_DurationNonNegative ==
  SummaryReturned => last.ret.duration_ms >= 0

\* the summary of a run that had been started has duration_ms >= 0
C40_StartedDurationNonNegative ==
  (SummaryReturned /\ runs[last.run_id].started_at # Null)
    => last.ret.duration_ms >= 0

\* the summary of a run cancelled while pending never has duration_ms > 0
C40_PendingDurationNotPositive ==
  (SummaryReturned /\ runs[last.run_id].started_at = Null)
    => last.ret.duration_ms <= 0

====
